---- MODULE Spec2Model ----
(***************************************************************************)
(* The task-list view-model pipeline of the task-manager dashboard:        *)
(* topic-tree construction, the task filter of useTasks, grouping and      *)
(* sorting in TaskList, the Assignees page and the dashboard statistics.   *)
(* Each component has its own specification (SpecTree, SpecQuery,          *)
(* SpecList, SpecAssignees, SpecDash) over the shared variables; the       *)
(* components a specification leaves out stay idle.                        *)
(*                                                                         *)
(* A JavaScript string is a sequence of one-character strings, so that     *)
(* split, join, startsWith, toUpperCase and includes are computed.  null   *)
(* is the one-element sequence <<"null">>, which no string equals.         *)
(***************************************************************************)
EXTENDS Integers, Sequences, FiniteSets, TLC

VARIABLES
  tasks,          \* the task snapshot handed to the component under study
  tree,           \* TopicTree: the memoised result of buildTopicTree
  filters,        \* useTasks: the FilterState of the last query
  queryData,      \* useTasks: the tasks of the last query result
  selectedAssignee, \* Assignees: useState<string | null>
  selectedTopic,  \* Topics: useState<string | null>
  assigneeStats,  \* Assignees: the memoised rollup list
  propTasks,      \* TaskList: the tasks prop of the last render
  groupBy,        \* TaskList: useState<GroupBy>
  sortBy,         \* TaskList: useState<SortBy>
  sortedTasks,    \* TaskList: sortTasks(tasks, sortBy) of the last render
  groupedTasks,   \* TaskList: groupTasks(sortedTasks, groupBy) of the last render
  statsData,      \* useStats: the TaskStatsResponse of the stats query
  now,            \* Dashboard: new Date() of the last statistics computation
  dashboardStats, \* Dashboard: the memoised statistics
  completionRate, \* Dashboard: the number in front of "% completion rate"
  mutation,       \* useCompleteTask / useReopenTask: the last settled mutation
  previous,       \* the operation and task id of the mutation before it
  invalidated,    \* queryClient: the query keys invalidated so far
  searchParams,   \* Tasks: the URL query string, as URLSearchParams
  tasksPage,      \* Tasks: not mounted, mounted, or a filter was changed
  page,           \* the page the router shows
  fetch,          \* the result of the page's tasks query
  detail,         \* TaskList: the TaskDetail drawer and the status of its mutation
  view,           \* what the page renders
  lastGood,       \* the content rendered when the tasks were last fetched
  heap,           \* the arrays in memory, the task array given being the first
  returned,       \* the function last called and the arrays of its result
  selectedTask,   \* TaskList: useState<Task | null>, the task of the drawer
  inFlight,       \* the mutation requests sent and not yet answered
  importMutation, \* Settings: the state of useImportTasks
  dryRunResult,   \* Settings: useState<ImportResponse | null>
  replaceMode,    \* Settings: useState(false), the replace checkbox
  lastImport      \* the import that settled last

vars == <<tasks, tree, filters, queryData, selectedAssignee, selectedTopic, assigneeStats,
          propTasks, groupBy,
          sortBy, sortedTasks, groupedTasks, statsData, now, dashboardStats,
          completionRate,
          mutation, previous, invalidated, searchParams, tasksPage,
          page, fetch, detail, view, lastGood, heap, returned,
          selectedTask, inFlight, importMutation, dryRunResult, replaceMode,
          lastImport>>

treeVars == <<tree>>
queryVars == <<filters, queryData>>
pageVars == <<selectedAssignee, selectedTopic, assigneeStats>>
listVars == <<propTasks, groupBy, sortBy, sortedTasks, groupedTasks>>
dashVars == <<statsData, now, dashboardStats, completionRate>>
mutationVars == <<mutation, previous, invalidated>>
urlVars == <<searchParams, tasksPage>>
viewVars == <<page, fetch, detail, view, lastGood>>
heapVars == <<heap, returned>>
drawerVars == <<selectedTask, inFlight>>
settingsVars == <<importMutation, dryRunResult, replaceMode, lastImport>>
restVars == <<mutationVars, urlVars, viewVars, heapVars, drawerVars, settingsVars>>

----------------------------------------------------------------------------
(* Values and strings                                                      *)

null == <<"null">>

\* JavaScript truthiness of a string | null value
Truthy(v) == v # null /\ v # <<>>

Slash == "/"

RECURSIVE split(_, _)
\* String.prototype.split(sep) for a one-character separator
split(s, sep) ==
  IF \A k \in 1..Len(s) : s[k] # sep
    THEN <<s>>
    ELSE LET k == CHOOSE j \in 1..Len(s) :
                    s[j] = sep /\ \A h \in 1..(j - 1) : s[h] # sep
         IN <<SubSeq(s, 1, k - 1)>> \o split(SubSeq(s, k + 1, Len(s)), sep)

RECURSIVE join(_, _)
\* Array.prototype.join(sep)
join(parts, sep) ==
  IF Len(parts) = 0 THEN <<>>
  ELSE IF Len(parts) = 1 THEN parts[1]
  ELSE parts[1] \o <<sep>> \o join(Tail(parts), sep)

\* String.prototype.startsWith
startsWith(s, prefix) ==
  Len(prefix) <= Len(s) /\ SubSeq(s, 1, Len(prefix)) = prefix

\* String.prototype.includes
includes(s, sub) ==
  \E k \in 0..(Len(s) - Len(sub)) : SubSeq(s, k + 1, k + Len(sub)) = sub

UpperOf ==
  [c \in {"h", "m", "l", "p", "c", "i"} |->
     CASE c = "h" -> "H" [] c = "m" -> "M" [] c = "l" -> "L"
       [] c = "p" -> "P" [] c = "c" -> "C" [] c = "i" -> "I"]

LowerOf ==
  [c \in {"W", "P", "Q", "J", "U", "D", "H", "S"} |->
     CASE c = "W" -> "w" [] c = "P" -> "p" [] c = "Q" -> "q" [] c = "J" -> "j"
       [] c = "U" -> "u" [] c = "D" -> "d" [] c = "H" -> "h" [] c = "S" -> "s"]

\* String.prototype.toUpperCase / toLowerCase, character by character
toUpperCase(s) == [k \in 1..Len(s) |-> IF s[k] \in DOMAIN UpperOf THEN UpperOf[s[k]] ELSE s[k]]
toLowerCase(s) == [k \in 1..Len(s) |-> IF s[k] \in DOMAIN LowerOf THEN LowerOf[s[k]] ELSE s[k]]

\* s.charAt(0).toUpperCase() + s.slice(1)
Capitalize(s) == toUpperCase(SubSeq(s, 1, 1)) \o SubSeq(s, 2, Len(s))

\* the enum words of the Task type
high == <<"h", "i", "g", "h">>
medium == <<"m", "e", "d", "i", "u", "m">>
low == <<"l", "o", "w">>
pending == <<"p", "e", "n", "d", "i", "n", "g">>
in_progress == <<"i", "n", "_", "p", "r", "o", "g", "r", "e", "s", "s">>
completed == <<"c", "o", "m", "p", "l", "e", "t", "e", "d">>

Unassigned == <<"U", "n", "a", "s", "s", "i", "g", "n", "e", "d">>
Sarah == <<"S", "a", "r", "a", "h">>
General == <<"G", "e", "n", "e", "r", "a", "l">>
John == <<"J", "o", "h", "n">>

\* topic paths
W == <<"W">>
W_P == <<"W", "/", "P">>
W_Q == <<"W", "/", "Q">>
Wo_P == <<"W", "o", "/", "P">>
Home == <<"H">>
W_ == <<"W", "/">>
_W == <<"/", "W">>
W__P == <<"W", "/", "/", "P">>
constructor == <<"c", "o", "n", "s", "t", "r", "u", "c", "t", "o", "r">>
W_constructor == <<"W", "/">> \o constructor

----------------------------------------------------------------------------
(* Tasks                                                                   *)

\* the clock counts ticks, TicksPerDay to the day
TicksPerDay == 2

Digits == <<"0", "1", "2", "3", "4", "5", "6", "7", "8", "9">>

DigitVal(c) == (CHOOSE k \in 1..10 : Digits[k] = c) - 1

\* the date string 'YYYY-MM-DD' of a day, reduced to its two day digits
DateString(day) == <<Digits[(day \div 10) + 1], Digits[(day % 10) + 1]>>

\* the timestamp string of a day and a tick: the day digits, "T", the tick digit
Timestamp(day, tick) == DateString(day) \o <<"T", Digits[tick + 1]>>

\* the day a date string or a timestamp string names
DayOf(str) == 10 * DigitVal(str[1]) + DigitVal(str[2])

\* new Date(str).getTime() and parseISO(str).getTime(): a date-only string is
\* midnight of its day, a timestamp adds its time of day
getTime(str) ==
  IF Len(str) = 2 THEN DayOf(str) * TicksPerDay
  ELSE DayOf(str) * TicksPerDay + DigitVal(str[4])

BaseTask ==
  [id |-> 0,
   description |-> <<"D", "o">>,
   assignee |-> John,
   deadline |-> DateString(3),
   priority |-> medium,
   primary_topic |-> W_P,
   status |-> pending,
   created_at |-> Timestamp(1, 0),
   updated_at |-> Timestamp(1, 0),
   completed_at |-> null]

\* the sequences of length at most n over the pool, ids set to the positions
RECURSIVE SeqsUpTo(_, _)
SeqsUpTo(pool, n) ==
  IF n = 0 THEN {<<>>}
  ELSE LET shorter == SeqsUpTo(pool, n - 1)
       IN shorter \cup {Append(s, t) : s \in {x \in shorter : Len(x) = n - 1}, t \in pool}

WithIds(s) == [k \in 1..Len(s) |-> [s[k] EXCEPT !.id = k]]

TaskLists(pool, n) == {WithIds(s) : s \in SeqsUpTo(pool, n)}

----------------------------------------------------------------------------
(* Topic tree (TopicTree.tsx)                                              *)

\* property names every object literal {} inherits from Object.prototype:
\* children[part] is truthy for them although no child was ever stored
ObjectPrototypeKeys == {constructor}

NewNode(name, fullPath) ==
  [name |-> name, fullPath |-> fullPath, tasks |-> <<>>,
   children |-> <<>>, taskCount |-> 0]

\* obj[key] = value on a Record<string, TopicNode>; a record of no keys is <<>>
SetChild(children, key, value) ==
  [k \in (DOMAIN children) \cup {key} |-> IF k = key THEN value ELSE children[k]]

RECURSIVE Descend(_, _, _, _)

RECURSIVE DescendCountLeafOnly(_, _, _, _)
\* Descend counting a task at its terminal node only
DescendCountLeafOnly(current, parts, i, task) ==
  LET part == parts[i]
      fullPath == join(SubSeq(parts, 1, i), Slash)
      found == IF part \in DOMAIN current.children
                 THEN current.children[part]
                 ELSE NewNode(part, fullPath)
      child == IF i = Len(parts)
                 THEN [found EXCEPT !.taskCount = @ + 1, !.tasks = Append(@, task)]
                 ELSE DescendCountLeafOnly(found, parts, i + 1, task)
  IN [current EXCEPT !.children = SetChild(@, part, child)]

RECURSIVE DescendPushEveryLevel(_, _, _, _)
\* Descend appending the task at every node of the walk
DescendPushEveryLevel(current, parts, i, task) ==
  LET part == parts[i]
      fullPath == join(SubSeq(parts, 1, i), Slash)
      found == IF part \in DOMAIN current.children
                 THEN current.children[part]
                 ELSE NewNode(part, fullPath)
      counted == [found EXCEPT !.taskCount = @ + 1, !.tasks = Append(@, task)]
      child == IF i = Len(parts)
                 THEN counted
                 ELSE DescendPushEveryLevel(counted, parts, i + 1, task)
  IN [current EXCEPT !.children = SetChild(@, part, child)]

\* the inner loop of buildTopicTree from index i on, below the node current
Descend(current, parts, i, task) ==
  LET part == parts[i]
      fullPath == join(SubSeq(parts, 1, i), Slash)
      found == IF part \in DOMAIN current.children
                 THEN current.children[part]
                 ELSE NewNode(part, fullPath)
      counted == [found EXCEPT !.taskCount = @ + 1]
      child == IF i = Len(parts)
                 THEN [counted EXCEPT !.tasks = Append(@, task)]
                 ELSE Descend(counted, parts, i + 1, task)
  IN [current EXCEPT !.children = SetChild(@, part, child)]

\* a segment that names an inherited property is found although absent; the
\* walk then steps onto a value that has no tasks and no children: TypeError
WalkThrows(task) ==
  LET parts == split(task.primary_topic, Slash)
  IN \E i \in 1..Len(parts) : parts[i] \in ObjectPrototypeKeys

TypeError == [state |-> "TypeError"]

RECURSIVE BuildFrom(_, _, _)
BuildFrom(root, ts, k) ==
  IF k > Len(ts) THEN root
  ELSE BuildFrom(Descend(root, split(ts[k].primary_topic, Slash), 1, ts[k]), ts, k + 1)

AllTopics == <<"A", "l", "l", " ", "T", "o", "p", "i", "c", "s">>

buildTopicTree(ts) ==
  IF \E k \in 1..Len(ts) : WalkThrows(ts[k])
    THEN TypeError
    ELSE [state |-> "ok",
          root |-> BuildFrom([NewNode(AllTopics, <<>>) EXCEPT !.taskCount = Len(ts)], ts, 1)]

\* the task lists the topic tree is built from
MaxTreeTasks == 3

TreeTopics == {W, W_P, W_Q, Wo_P, Home, <<>>, W_, _W, W__P, constructor, W_constructor}

TreeInputs == TaskLists({[BaseTask EXCEPT !.primary_topic = tp] : tp \in TreeTopics}, MaxTreeTasks)

\* TopicTree renders: useMemo builds the tree of the tasks it was given
TopicTree ==
  /\ tree' = buildTopicTree(tasks)
  /\ UNCHANGED <<tasks, queryVars, pageVars, listVars, dashVars, restVars>>

NoQuery == [status |-> null, topic |-> null, assignee |-> null, priority |-> null, search |-> <<>>]

\* the components a specification leaves out stay unmounted
NoTree == [state |-> "none"]
NoStats == [state |-> "none"]
NoData == [state |-> "pending"]
NoGroups == <<>>

IdleTree == tree = NoTree
IdleQuery == filters = NoQuery /\ queryData = NoData
IdlePage == selectedAssignee = null /\ selectedTopic = null /\ assigneeStats = <<>>
IdleList ==
  /\ propTasks = <<>>
  /\ groupBy = "none"
  /\ sortBy = "priority"
  /\ sortedTasks = <<>>
  /\ groupedTasks = NoGroups
NaN == [kind |-> "NaN", n |-> 0, d |-> 1]
IdleDash ==
  /\ statsData = NoData
  /\ now = 0
  /\ dashboardStats = NoStats
  /\ completionRate = NaN
NoMutation == [state |-> "idle"]
NoOperation == [op |-> "none", taskId |-> 0]
IdleMutation == mutation = NoMutation /\ previous = NoOperation /\ invalidated = {}
IdleUrl == searchParams = <<>> /\ tasksPage = "unmounted"
NoFetch == [status |-> "pending", fetching |-> FALSE, error |-> FALSE,
            hasData |-> FALSE, data |-> <<>>]
NoContent == [shown |-> FALSE, tasks |-> <<>>]
NoDetail == [open |-> FALSE, status |-> "idle"]
NoView == [message |-> FALSE, content |-> NoContent, detailMessage |-> FALSE]
IdleView ==
  /\ page = "none"
  /\ fetch = NoFetch
  /\ detail = NoDetail
  /\ view = NoView
  /\ lastGood = NoContent
NoCall == [fn |-> "none", arrays |-> <<>>]
IdleHeap == heap = <<>> /\ returned = NoCall
NoTask == [open |-> FALSE]
IdleDrawer == selectedTask = NoTask /\ inFlight = <<>>
NoImport == [status |-> "idle"]
NoResult == [shown |-> FALSE]
IdleSettings ==
  /\ importMutation = NoImport
  /\ dryRunResult = NoResult
  /\ replaceMode = FALSE
  /\ lastImport = NoImport
IdleRest == IdleMutation /\ IdleUrl /\ IdleView /\ IdleHeap /\ IdleDrawer /\ IdleSettings

InitTree ==
  /\ tasks \in TreeInputs
  /\ IdleTree /\ IdleRest
  /\ IdleQuery /\ IdlePage /\ IdleList /\ IdleDash

NextTree == TopicTree

SpecTree == InitTree /\ [][NextTree]_vars

\* every node of a tree below the root, with the segments that lead to it
RECURSIVE NodesBelow(_, _)
NodesBelow(node, path) ==
  UNION {LET child == node.children[seg]
             childPath == Append(path, seg)
         IN {[path |-> childPath, node |-> child]} \cup NodesBelow(child, childPath)
         : seg \in DOMAIN node.children}

----------------------------------------------------------------------------
(* The task filter of useTasks (hooks/useTasks.ts, queryFn with USE_MOCK)  *)

RECURSIVE SelectTasks(_, _)
\* Array.prototype.filter: the tasks at the positions keep, in order
SelectTasks(ts, keep) ==
  IF ts = <<>> THEN <<>>
  ELSE LET rest == SelectTasks(Tail(ts), [k \in 1..(Len(ts) - 1) |-> keep[k + 1]])
       IN IF keep[1] THEN <<Head(ts)>> \o rest ELSE rest

filter(ts, Test(_)) == SelectTasks(ts, [k \in 1..Len(ts) |-> Test(ts[k])])

byStatus(ts, f) ==
  IF Truthy(f.status) THEN filter(ts, LAMBDA t : t.status = f.status) ELSE ts

\* byTopic matching whole path segments only
byTopicSegments(ts, f) ==
  IF Truthy(f.topic)
    THEN filter(ts, LAMBDA t :
           \/ t.primary_topic = f.topic
           \/ startsWith(t.primary_topic, f.topic \o <<Slash>>))
    ELSE ts

byTopic(ts, f) ==
  IF Truthy(f.topic) THEN filter(ts, LAMBDA t : startsWith(t.primary_topic, f.topic)) ELSE ts

\* byAssignee comparing the assignee text with every filter value alike
byAssigneePlainText(ts, f) ==
  IF Truthy(f.assignee) THEN filter(ts, LAMBDA t : t.assignee = f.assignee) ELSE ts

byAssignee(ts, f) ==
  IF Truthy(f.assignee)
    THEN IF f.assignee = Unassigned
           THEN filter(ts, LAMBDA t : ~Truthy(t.assignee))
           ELSE filter(ts, LAMBDA t : t.assignee = f.assignee)
    ELSE ts

byPriority(ts, f) ==
  IF Truthy(f.priority) THEN filter(ts, LAMBDA t : t.priority = f.priority) ELSE ts

bySearch(ts, f) ==
  IF Truthy(f.search)
    THEN LET search == toLowerCase(f.search)
         IN filter(ts, LAMBDA t :
              \/ includes(toLowerCase(t.description), search)
              \/ includes(toLowerCase(t.primary_topic), search)
              \/ (t.assignee # null /\ includes(toLowerCase(t.assignee), search)))
    ELSE ts

\* the five filters applied only to the first field that is set
applyFiltersFirstOnly(ts, f) ==
  IF Truthy(f.status) THEN byStatus(ts, f)
  ELSE IF Truthy(f.topic) THEN byTopic(ts, f)
  ELSE IF Truthy(f.assignee) THEN byAssignee(ts, f)
  ELSE IF Truthy(f.priority) THEN byPriority(ts, f)
  ELSE bySearch(ts, f)

\* the filters applied without the test that the field is set
applyFiltersUnguarded(ts, f) ==
  filter(ts, LAMBDA t :
    /\ t.status = f.status
    /\ t.priority = f.priority
    /\ t.assignee = f.assignee
    /\ startsWith(t.primary_topic, f.topic))

\* "Apply filters": the five conditional filter passes over a copy of the tasks
applyFilters(ts, f) ==
  bySearch(byPriority(byAssignee(byTopic(byStatus(ts, f), f), f), f), f)

\* the TaskListResponse the mock queryFn resolves with
queryFn(mockTasks, f) ==
  LET found == applyFilters(mockTasks, f)
  IN [state |-> "success", total |-> Len(found), count |-> Len(found), tasks |-> found]

\* the task lists and filter states of the query
MaxQueryTasks == 2

QueryTaskPool ==
  {BaseTask}
    \cup {[BaseTask EXCEPT !.status = v] : v \in {completed, in_progress}}
    \cup {[BaseTask EXCEPT !.priority = v] : v \in {high}}
    \cup {[BaseTask EXCEPT !.assignee = v] : v \in {null, <<>>, Unassigned}}
    \cup {[BaseTask EXCEPT !.primary_topic = v] : v \in {W, Wo_P, Home}}

QueryInputs == TaskLists(QueryTaskPool, MaxQueryTasks)

FilterStates ==
  [status : {null, pending, completed},
   topic : {null, W, W_P},
   assignee : {null, Unassigned, John},
   priority : {null, high},
   search : {<<>>, <<"W">>, <<"j", "o">>}]

\* useTasks(filters) runs its queryFn and the query resolves
useTasks ==
  /\ queryData = NoData
  /\ queryData' = queryFn(tasks, filters)
  /\ UNCHANGED <<tasks, filters, treeVars, pageVars, listVars, dashVars, restVars>>

InitQuery ==
  /\ tasks \in QueryInputs
  /\ filters \in FilterStates
  /\ queryData = NoData
  /\ IdleTree /\ IdlePage /\ IdleList /\ IdleDash /\ IdleRest

NextQuery == useTasks

SpecQuery == InitQuery /\ [][NextQuery]_vars

----------------------------------------------------------------------------
(* Grouping and sorting (TaskList.tsx)                                     *)

AllTasks == <<"A", "l", "l", " ", "T", "a", "s", "k", "s">>
InProgress == <<"I", "n", " ", "P", "r", "o", "g", "r", "e", "s", "s">>
Other == <<"O", "t", "h", "e", "r">>

GroupBys == {"none", "topic", "assignee", "priority", "status"}
SortBys == {"deadline", "priority", "created", "updated", "topic"}

\* groupKey capitalising every status word alike
groupKeyPlainStatus(task, by) ==
  CASE by = "topic" -> task.primary_topic
    [] by = "assignee" -> IF Truthy(task.assignee) THEN task.assignee ELSE Unassigned
    [] by = "priority" -> Capitalize(task.priority)
    [] by = "status" -> Capitalize(task.status)
    [] OTHER -> Other

\* the switch of groupTasks: the bucket key of a task
groupKey(task, by) ==
  CASE by = "topic" -> task.primary_topic
    [] by = "assignee" -> IF Truthy(task.assignee) THEN task.assignee ELSE Unassigned
    [] by = "priority" -> Capitalize(task.priority)
    [] by = "status" -> IF task.status = in_progress THEN InProgress
                        ELSE Capitalize(task.status)
    [] OTHER -> Other

\* MapPush putting a new bucket in front of the others
MapPushFront(groups, key, task) ==
  IF \E k \in 1..Len(groups) : groups[k].key = key
    THEN [k \in 1..Len(groups) |->
            IF groups[k].key = key
              THEN [groups[k] EXCEPT !.tasks = Append(@, task)]
              ELSE groups[k]]
    ELSE <<[key |-> key, tasks |-> <<task>>]>> \o groups

\* groups.has(key) / groups.get(key)!.push(task) on an insertion-ordered Map,
\* held as the sequence of its entries
MapPush(groups, key, task) ==
  IF \E k \in 1..Len(groups) : groups[k].key = key
    THEN [k \in 1..Len(groups) |->
            IF groups[k].key = key
              THEN [groups[k] EXCEPT !.tasks = Append(@, task)]
              ELSE groups[k]]
    ELSE Append(groups, [key |-> key, tasks |-> <<task>>])

RECURSIVE GroupFrom(_, _, _, _)
GroupFrom(groups, ts, k, by) ==
  IF k > Len(ts) THEN groups
  ELSE GroupFrom(MapPush(groups, groupKey(ts[k], by), ts[k]), ts, k + 1, by)

groupTasks(ts, by) ==
  IF by = "none"
    THEN <<[key |-> AllTasks, tasks |-> ts]>>
    ELSE GroupFrom(<<>>, ts, 1, by)

\* the collation order of the characters that occur in topics
CollationOrder == <<"/", "c", "H", "n", "o", "P", "Q", "r", "s", "t", "u", "W">>

CollationRank(c) == CHOOSE k \in 1..Len(CollationOrder) : CollationOrder[k] = c

RECURSIVE localeCompare(_, _)
\* String.prototype.localeCompare: negative, zero or positive
localeCompare(a, b) ==
  IF a = <<>> /\ b = <<>> THEN 0
  ELSE IF a = <<>> THEN -1
  ELSE IF b = <<>> THEN 1
  ELSE IF CollationRank(Head(a)) < CollationRank(Head(b)) THEN -1
  ELSE IF CollationRank(Head(a)) > CollationRank(Head(b)) THEN 1
  ELSE localeCompare(Tail(a), Tail(b))

priorityOrder(p) == CASE p = high -> 0 [] p = medium -> 1 [] p = low -> 2

\* compare with the tasks without a deadline first
compareNullFirst(a, b, by) ==
  CASE by = "deadline" ->
         IF ~Truthy(a.deadline) /\ ~Truthy(b.deadline) THEN 0
         ELSE IF ~Truthy(a.deadline) THEN -1
         ELSE IF ~Truthy(b.deadline) THEN 1
         ELSE getTime(a.deadline) - getTime(b.deadline)
    [] by = "priority" -> priorityOrder(a.priority) - priorityOrder(b.priority)
    [] by = "created" -> getTime(b.created_at) - getTime(a.created_at)
    [] by = "updated" -> getTime(b.updated_at) - getTime(a.updated_at)
    [] by = "topic" -> localeCompare(a.primary_topic, b.primary_topic)
    [] OTHER -> 0

\* compare with the created and updated timestamps ascending
compareOldestFirst(a, b, by) ==
  CASE by = "deadline" ->
         IF ~Truthy(a.deadline) /\ ~Truthy(b.deadline) THEN 0
         ELSE IF ~Truthy(a.deadline) THEN 1
         ELSE IF ~Truthy(b.deadline) THEN -1
         ELSE getTime(a.deadline) - getTime(b.deadline)
    [] by = "priority" -> priorityOrder(a.priority) - priorityOrder(b.priority)
    [] by = "created" -> getTime(a.created_at) - getTime(b.created_at)
    [] by = "updated" -> getTime(a.updated_at) - getTime(b.updated_at)
    [] by = "topic" -> localeCompare(a.primary_topic, b.primary_topic)
    [] OTHER -> 0

\* the comparator sortTasks hands to Array.prototype.sort
compare(a, b, by) ==
  CASE by = "deadline" ->
         IF ~Truthy(a.deadline) /\ ~Truthy(b.deadline) THEN 0
         ELSE IF ~Truthy(a.deadline) THEN 1
         ELSE IF ~Truthy(b.deadline) THEN -1
         ELSE getTime(a.deadline) - getTime(b.deadline)
    [] by = "priority" -> priorityOrder(a.priority) - priorityOrder(b.priority)
    [] by = "created" -> getTime(b.created_at) - getTime(a.created_at)
    [] by = "updated" -> getTime(b.updated_at) - getTime(a.updated_at)
    [] by = "topic" -> localeCompare(a.primary_topic, b.primary_topic)
    [] OTHER -> 0

\* insertion of x into a sorted array behind every element that is not
\* greater: the place a stable sort gives it
InsertStable(sorted, x, by) ==
  LET notGreater == {k \in 1..Len(sorted) : compare(sorted[k], x, by) <= 0}
      at == IF notGreater = {} THEN 0
            ELSE CHOOSE k \in notGreater : \A h \in notGreater : h <= k
  IN SubSeq(sorted, 1, at) \o <<x>> \o SubSeq(sorted, at + 1, Len(sorted))

\* insertion in front of the elements that compare equal
InsertBeforeEqual(sorted, x, by) ==
  LET less == {k \in 1..Len(sorted) : compare(sorted[k], x, by) < 0}
      at == IF less = {} THEN 0
            ELSE CHOOSE k \in less : \A h \in less : h <= k
  IN SubSeq(sorted, 1, at) \o <<x>> \o SubSeq(sorted, at + 1, Len(sorted))

RECURSIVE SortFrom(_, _, _, _)
SortFrom(sorted, ts, k, by) ==
  IF k > Len(ts) THEN sorted
  ELSE SortFrom(InsertStable(sorted, ts[k], by), ts, k + 1, by)

RECURSIVE SortFromUnstable(_, _, _, _)
SortFromUnstable(sorted, ts, k, by) ==
  IF k > Len(ts) THEN sorted
  ELSE SortFromUnstable(InsertBeforeEqual(sorted, ts[k], by), ts, k + 1, by)

\* sortTasks with a sort that does not keep the order of equal elements
sortTasksUnstable(ts, by) == SortFromUnstable(<<>>, ts, 1, by)

\* [...tasks].sort(compare): Array.prototype.sort is stable
sortTasks(ts, by) == SortFrom(<<>>, ts, 1, by)

\* the task lists TaskList is given
MaxListTasks == 2

ListTaskPool ==
  {BaseTask}
    \cup {[BaseTask EXCEPT !.deadline = v] : v \in {null, <<>>, DateString(1), DateString(12)}}
    \cup {[BaseTask EXCEPT !.priority = v] : v \in {high, low}}
    \cup {[BaseTask EXCEPT !.assignee = v] : v \in {null, <<>>, Unassigned}}
    \cup {[BaseTask EXCEPT !.status = v] : v \in {completed, in_progress}}
    \cup {[BaseTask EXCEPT !.primary_topic = v] : v \in {W, Wo_P}}
    \cup {[BaseTask EXCEPT !.created_at = v] : v \in {Timestamp(0, 1), Timestamp(1, 1)}}
    \cup {[BaseTask EXCEPT !.updated_at = v] : v \in {Timestamp(1, 1), Timestamp(2, 0)}}

ListInputs == TaskLists(ListTaskPool, MaxListTasks)

\* Render grouping the tasks prop instead of the sorted tasks
RenderGroupUnsorted(ts, by, sort) ==
  /\ propTasks' = ts
  /\ sortedTasks' = sortTasks(ts, sort)
  /\ groupedTasks' = groupTasks(ts, by)

\* the body of TaskList: sort the tasks prop, then group the sorted tasks
Render(ts, by, sort) ==
  /\ propTasks' = ts
  /\ sortedTasks' = sortTasks(ts, sort)
  /\ groupedTasks' = groupTasks(sortTasks(ts, sort), by)

\* the group select: setGroupBy and the render that follows
setGroupBy(by) ==
  /\ by # groupBy
  /\ groupBy' = by
  /\ Render(propTasks, by, sortBy)
  /\ UNCHANGED <<tasks, sortBy, treeVars, queryVars, pageVars, dashVars, restVars>>

\* the sort select: setSortBy and the render that follows
setSortBy(sort) ==
  /\ sort # sortBy
  /\ sortBy' = sort
  /\ Render(propTasks, groupBy, sort)
  /\ UNCHANGED <<tasks, groupBy, treeVars, queryVars, pageVars, dashVars, restVars>>

\* TaskList mounted with the tasks: useState defaults and the first render
InitList ==
  /\ tasks \in ListInputs
  /\ propTasks = tasks
  /\ groupBy = "none"
  /\ sortBy = "priority"
  /\ sortedTasks = sortTasks(tasks, "priority")
  /\ groupedTasks = groupTasks(sortTasks(tasks, "priority"), "none")
  /\ IdleTree /\ IdleQuery /\ IdlePage /\ IdleDash /\ IdleRest

NextList ==
  \/ \E by \in GroupBys : setGroupBy(by)
  \/ \E sort \in SortBys : setSortBy(sort)

SpecList == InitList /\ [][NextList]_vars

----------------------------------------------------------------------------
(* The Assignees page (pages/Assignees.tsx)                                *)

MaxAssigneeTasks == 3

AssigneeTaskPool ==
  {[BaseTask EXCEPT !.assignee = v] : v \in {null, <<>>, John, Unassigned}}
  \cup {[BaseTask EXCEPT !.assignee = Sarah, !.priority = high, !.status = completed],
        [BaseTask EXCEPT !.assignee = null, !.priority = low, !.status = in_progress]}

AssigneeInputs == TaskLists(AssigneeTaskPool, MaxAssigneeTasks)

\* stats.set(name, {...}) followed by the update of the entry for one task
NewStat(name) ==
  [name |-> name, tasks |-> <<>>, high |-> 0, medium |-> 0, low |-> 0,
   pending |-> 0, completed |-> 0]

\* CountTask counting only the tasks with status pending as pending
CountTaskPendingOnly(stat, task) ==
  LET pushed == [stat EXCEPT !.tasks = Append(@, task)]
      counted == CASE task.priority = high -> [pushed EXCEPT !.high = @ + 1]
                      [] task.priority = medium -> [pushed EXCEPT !.medium = @ + 1]
                      [] task.priority = low -> [pushed EXCEPT !.low = @ + 1]
  IN IF task.status = completed THEN [counted EXCEPT !.completed = @ + 1]
     ELSE IF task.status = pending THEN [counted EXCEPT !.pending = @ + 1]
     ELSE counted

\* stat.tasks.push(task); stat[task.priority]++; completed++ or pending++
CountTask(stat, task) ==
  LET pushed == [stat EXCEPT !.tasks = Append(@, task)]
      counted == CASE task.priority = high -> [pushed EXCEPT !.high = @ + 1]
                      [] task.priority = medium -> [pushed EXCEPT !.medium = @ + 1]
                      [] task.priority = low -> [pushed EXCEPT !.low = @ + 1]
  IN IF task.status = completed
       THEN [counted EXCEPT !.completed = @ + 1]
       ELSE [counted EXCEPT !.pending = @ + 1]

\* the Map of the rollup after the tasks from place k on, in insertion order
RECURSIVE StatsFrom(_, _, _)
StatsFrom(stats, ts, k) ==
  IF k > Len(ts) THEN stats
  ELSE LET name == IF Truthy(ts[k].assignee) THEN ts[k].assignee ELSE Unassigned
           had == \E i \in 1..Len(stats) : stats[i].name = name
           withEntry == IF had THEN stats ELSE Append(stats, NewStat(name))
       IN StatsFrom([i \in 1..Len(withEntry) |->
                       IF withEntry[i].name = name
                         THEN CountTask(withEntry[i], ts[k])
                         ELSE withEntry[i]],
                    ts, k + 1)

\* compareStats by task count only
compareStatsByCount(a, b) == Len(b.tasks) - Len(a.tasks)

\* the comparator of the rollup list
compareStats(a, b) ==
  IF a.name = Unassigned THEN 1
  ELSE IF b.name = Unassigned THEN -1
  ELSE Len(b.tasks) - Len(a.tasks)

\* Array.prototype.sort with compareStats, a stable sort
InsertStat(sorted, x) ==
  LET notGreater == {k \in 1..Len(sorted) : compareStats(sorted[k], x) <= 0}
      at == IF notGreater = {} THEN 0
            ELSE CHOOSE k \in notGreater : \A h \in notGreater : h <= k
  IN SubSeq(sorted, 1, at) \o <<x>> \o SubSeq(sorted, at + 1, Len(sorted))

RECURSIVE SortStatsFrom(_, _, _)
SortStatsFrom(sorted, stats, k) ==
  IF k > Len(stats) THEN sorted
  ELSE SortStatsFrom(InsertStat(sorted, stats[k]), stats, k + 1)

\* the assigneeStats memo
computeAssigneeStats(ts) == SortStatsFrom(<<>>, StatsFrom(<<>>, ts, 1), 1)

\* the names of the rollup entries: task.assignee || 'Unassigned'
RollupNames(ts) ==
  {IF Truthy(ts[k].assignee) THEN ts[k].assignee ELSE Unassigned : k \in 1..Len(ts)}

\* const tasks = selectedAssignee ? (filteredData?.tasks || []) : (allTasksData?.tasks || [])
AssigneesTasks(selected, filteredData, allTasks) ==
  IF Truthy(selected)
    THEN IF filteredData.state = "success" THEN filteredData.tasks ELSE <<>>
    ELSE allTasks

\* a click on "All Assignees" or on a rollup entry: the filtered query gets a
\* new key and the page renders while it loads
setSelectedAssignee(name) ==
  /\ name # selectedAssignee
  /\ selectedAssignee' = name
  /\ filters' = [NoQuery EXCEPT !.assignee = name]
  /\ queryData' = IF Truthy(name) THEN NoData ELSE queryFn(tasks, NoQuery)
  /\ Render(AssigneesTasks(name, queryData', tasks), groupBy, sortBy)
  /\ UNCHANGED <<tasks, selectedTopic, assigneeStats, groupBy, sortBy, treeVars, dashVars, restVars>>

\* the filtered query resolves and the page renders its tasks
filteredQueryResolves ==
  /\ queryData = NoData
  /\ queryData' = queryFn(tasks, filters)
  /\ Render(AssigneesTasks(selectedAssignee, queryData', tasks), groupBy, sortBy)
  /\ UNCHANGED <<tasks, filters, pageVars, groupBy, sortBy, treeVars, dashVars, restVars>>

\* the page mounted and the query of all tasks resolved
InitAssignees ==
  /\ tasks \in AssigneeInputs
  /\ selectedAssignee = null
  /\ selectedTopic = null
  /\ assigneeStats = computeAssigneeStats(tasks)
  /\ filters = NoQuery
  /\ queryData = queryFn(tasks, NoQuery)
  /\ propTasks = tasks
  /\ groupBy = "none"
  /\ sortBy = "priority"
  /\ sortedTasks = sortTasks(tasks, "priority")
  /\ groupedTasks = groupTasks(sortTasks(tasks, "priority"), "none")
  /\ IdleTree /\ IdleDash /\ IdleRest

NextAssignees ==
  \/ \E name \in RollupNames(tasks) \cup {null} : setSelectedAssignee(name)
  \/ filteredQueryResolves
  \/ \E by \in GroupBys : setGroupBy(by)
  \/ \E sort \in SortBys : setSortBy(sort)

SpecAssignees == InitAssignees /\ [][NextAssignees]_vars

----------------------------------------------------------------------------
(* Dashboard statistics (pages/Dashboard.tsx)                              *)

\* date-fns, on clock ticks; the statistics are computed synchronously, so
\* isPast and isToday read the clock at the instant of new Date()
parseISO(str) == getTime(str)
isPast(time, clock) == time < clock
startOfDay(time) == (time \div TicksPerDay) * TicksPerDay
isToday(time, clock) == startOfDay(time) = startOfDay(clock)
addDays(time, days) == time + days * TicksPerDay

\* an interval test that has no lower end
isBeforeEnd(time, start, end) == time <= end

isWithinInterval(time, start, end) == time >= start /\ time <= end

\* Array.prototype.slice(0, n)
slice(ts, n) == SubSeq(ts, 1, IF Len(ts) < n THEN Len(ts) ELSE n)

\* Array.prototype.includes, the tasks of a snapshot being distinct objects
includesTask(ts, t) == \E k \in 1..Len(ts) : ts[k] = t

DueSoonDays == 7
UrgentLimit == 5
RecentLimit == 5

\* the body of the dashboardStats memo, new Date() being clock
computeDashboardStats(stats, ts, clock) ==
  LET weekFromNow == addDays(clock, DueSoonDays)
      activeTasks == filter(ts, LAMBDA t : t.status # completed)
      overdueTasks == filter(activeTasks, LAMBDA t :
                        /\ Truthy(t.deadline)
                        /\ isPast(parseISO(t.deadline), clock)
                        /\ ~isToday(parseISO(t.deadline), clock))
      dueSoonTasks == filter(activeTasks, LAMBDA t :
                        /\ Truthy(t.deadline)
                        /\ isWithinInterval(parseISO(t.deadline), clock, weekFromNow))
      urgentTasks == slice(filter(activeTasks, LAMBDA t :
                             \/ t.priority = high
                             \/ includesTask(dueSoonTasks, t)
                             \/ includesTask(overdueTasks, t)),
                           UrgentLimit)
      recentTasks == slice(sortTasks(ts, "updated"), RecentLimit)
  IN [state |-> "computed",
      total |-> stats.total_tasks,
      byStatus |-> stats.by_status,
      byPriority |-> stats.by_priority,
      overdue |-> Len(overdueTasks),
      dueSoon |-> Len(dueSoonTasks),
      assigneeCount |-> Len(stats.assignees),
      topicCount |-> Len(stats.topics),
      overdueTasks |-> overdueTasks,
      dueSoonTasks |-> dueSoonTasks,
      urgentTasks |-> urgentTasks,
      recentTasks |-> recentTasks]

\* JavaScript numbers: NaN, Infinity and the fractions n / d of two naturals
Infinity == [kind |-> "Infinity", n |-> 0, d |-> 1]
Number(n, d) == [kind |-> "finite", n |-> n, d |-> d]

\* a / b of two natural numbers
divide(a, b) ==
  IF b = 0 THEN (IF a = 0 THEN NaN ELSE Infinity) ELSE Number(a, b)

\* x * k
times(x, k) == IF x.kind = "finite" THEN Number(x.n * k, x.d) ELSE x

\* x || y: NaN and 0 are falsy
OrNumber(x, y) ==
  IF x.kind = "NaN" \/ (x.kind = "finite" /\ x.n = 0) THEN y ELSE x

\* Math.round of a number that is not negative: halves go up
MathRound(x) ==
  IF x.kind = "finite" THEN Number((2 * x.n + x.d) \div (2 * x.d), 1) ELSE x

\* Math.round((completed / dashboardStats.total) * 100 || 0)
renderCompletionRate(stats) ==
  MathRound(OrNumber(times(divide(stats.byStatus.completed, stats.total), 100),
                     Number(0, 1)))

\* the task lists, stats responses and clock readings of the dashboard
MaxDashTasks == 2

DeadlineDays == {0, 1, 2, 8, 9, 10}
NowDays == {1, 2}
NowTicks == {d * TicksPerDay + k : d \in NowDays, k \in 0..(TicksPerDay - 1)}

DashTaskPool ==
  {[BaseTask EXCEPT !.deadline = dl, !.status = st, !.priority = pr] :
     dl \in {null, <<>>} \cup {DateString(d) : d \in DeadlineDays},
     st \in {pending, completed},
     pr \in {high, low}}

DashInputs == TaskLists(DashTaskPool, MaxDashTasks)

StatsResponses ==
  {[state |-> "success", total_tasks |-> 0,
    by_status |-> [pending |-> 0, in_progress |-> 0, completed |-> 0],
    by_priority |-> [high |-> 0, medium |-> 0, low |-> 0],
    topics |-> <<>>, assignees |-> <<>>],
   [state |-> "success", total_tasks |-> 3,
    by_status |-> [pending |-> 1, in_progress |-> 1, completed |-> 1],
    by_priority |-> [high |-> 1, medium |-> 1, low |-> 1],
    topics |-> <<W_P, Home>>, assignees |-> <<John, Unassigned>>]}

\* both queries have resolved: the memo computes the statistics at some time
Dashboard ==
  /\ dashboardStats = NoStats
  /\ \E clock \in NowTicks :
       /\ now' = clock
       /\ dashboardStats' = computeDashboardStats(statsData, tasks, clock)
       /\ completionRate' = renderCompletionRate(dashboardStats')
  /\ UNCHANGED <<tasks, statsData, treeVars, queryVars, pageVars, listVars, restVars>>

InitDash ==
  /\ tasks \in DashInputs
  /\ statsData \in StatsResponses
  /\ now = 0
  /\ dashboardStats = NoStats
  /\ completionRate = NaN
  /\ IdleTree /\ IdleQuery /\ IdlePage /\ IdleList /\ IdleRest

NextDash == Dashboard

SpecDash == InitDash /\ [][NextDash]_vars

\* the stats responses of every completed count and total up to MaxCount
MaxCount == 8

RateResponses ==
  {[state |-> "success", total_tasks |-> total,
    by_status |-> [pending |-> 0, in_progress |-> 0, completed |-> done],
    by_priority |-> [high |-> 0, medium |-> 0, low |-> 0],
    topics |-> <<>>, assignees |-> <<>>] :
     total \in 0..MaxCount, done \in 0..MaxCount}

InitRate ==
  /\ tasks = <<>>
  /\ statsData \in RateResponses
  /\ now = 0
  /\ dashboardStats = NoStats
  /\ completionRate = NaN
  /\ IdleTree /\ IdleQuery /\ IdlePage /\ IdleList /\ IdleRest

SpecRate == InitRate /\ [][NextDash]_vars

----------------------------------------------------------------------------
(* Complete and reopen (hooks/useTasks.ts), with the mock data             *)

\* Date.prototype.toISOString of a clock reading
toISOString(clock) == Timestamp(clock \div TicksPerDay, clock % TicksPerDay)

\* Array.prototype.find by id: the places of the tasks with the id
find(ts, taskId) == {k \in 1..Len(ts) : ts[k].id = taskId}

\* the query keys onSuccess invalidates
QueryKey(name, taskId) == [key |-> name, taskId |-> taskId]
InvalidatedBy(taskId) ==
  {QueryKey("tasks", 0), QueryKey("task", taskId), QueryKey("stats", 0)}

\* the mutation has settled: the result of mutationFn, then onSuccess
Settle(op, taskId, result) ==
  /\ previous' = IF mutation = NoMutation THEN NoOperation
                 ELSE [op |-> mutation.op, taskId |-> mutation.taskId]
  /\ IF find(tasks, taskId) = {}
       THEN /\ mutation' = [state |-> "error", op |-> op, taskId |-> taskId,
                            message |-> "Task not found"]
            /\ UNCHANGED invalidated
       ELSE /\ mutation' = [state |-> "success", op |-> op, taskId |-> taskId,
                            data |-> result]
            /\ invalidated' = invalidated \cup InvalidatedBy(taskId)

\* the mutationFn of useCompleteTask on the task found
completeTask(task, clock) ==
  [task EXCEPT !.status = completed,
               !.completed_at = toISOString(clock),
               !.updated_at = toISOString(clock)]

\* reopenTask leaving completed_at as the task had it
reopenTaskKeepCompletedAt(task, clock) ==
  [task EXCEPT !.status = pending,
               !.updated_at = toISOString(clock)]

\* the mutationFn of useReopenTask on the task found
reopenTask(task, clock) ==
  [task EXCEPT !.status = pending,
               !.completed_at = null,
               !.updated_at = toISOString(clock)]

useCompleteTask(taskId) ==
  /\ \E clock \in NowTicks :
       LET found == find(tasks, taskId)
           result == IF found = {} THEN null
                     ELSE completeTask(tasks[CHOOSE k \in found : \A h \in found : k <= h], clock)
       IN Settle("complete", taskId, result)
  /\ UNCHANGED <<tasks, treeVars, queryVars, pageVars, listVars, dashVars, urlVars, viewVars, heapVars, drawerVars, settingsVars>>

useReopenTask(taskId) ==
  /\ \E clock \in NowTicks :
       LET found == find(tasks, taskId)
           result == IF found = {} THEN null
                     ELSE reopenTask(tasks[CHOOSE k \in found : \A h \in found : k <= h], clock)
       IN Settle("reopen", taskId, result)
  /\ UNCHANGED <<tasks, treeVars, queryVars, pageVars, listVars, dashVars, urlVars, viewVars, heapVars, drawerVars, settingsVars>>

\* onSuccess of a hook that names no task: the tasks and the stats queries
InvalidatedByList == {QueryKey("tasks", 0), QueryKey("stats", 0)}

\* a mutation that names no task has settled with a result
SettleList(op, result) ==
  /\ previous' = IF mutation = NoMutation THEN NoOperation
                 ELSE [op |-> mutation.op, taskId |-> mutation.taskId]
  /\ mutation' = [state |-> "success", op |-> op, taskId |-> 0, data |-> result]

\* the mock task of useCreateTask for a payload that holds a description only
createTask(clock) ==
  [BaseTask EXCEPT !.id = 0 - (clock + 1),
                   !.status = pending,
                   !.primary_topic = General,
                   !.priority = medium,
                   !.assignee = null,
                   !.deadline = null,
                   !.created_at = toISOString(clock),
                   !.updated_at = toISOString(clock),
                   !.completed_at = null]

useCreateTask ==
  /\ \E clock \in NowTicks : SettleList("create", createTask(clock))
  /\ invalidated' = invalidated \cup InvalidatedByList
  /\ UNCHANGED <<tasks, treeVars, queryVars, pageVars, listVars, dashVars, urlVars, viewVars, heapVars, drawerVars, settingsVars>>

\* the update payloads: { status }, { priority }
UpdatePayloads == {[field |-> "status", value |-> completed],
                   [field |-> "priority", value |-> high]}

\* { ...task, ...payload, updated_at }
updateTask(task, payload, clock) ==
  [[task EXCEPT ![payload.field] = payload.value]
     EXCEPT !.updated_at = toISOString(clock)]

useUpdateTask(taskId, payload) ==
  /\ \E clock \in NowTicks :
       LET found == find(tasks, taskId)
           result == IF found = {} THEN null
                     ELSE updateTask(tasks[CHOOSE k \in found : \A h \in found : k <= h],
                                     payload, clock)
       IN Settle("update", taskId, result)
  /\ UNCHANGED <<tasks, treeVars, queryVars, pageVars, listVars, dashVars, urlVars, viewVars, heapVars, drawerVars, settingsVars>>

\* the mock resolves for any id: { success: true, task_id }
useDeleteTask(taskId) ==
  /\ previous' = IF mutation = NoMutation THEN NoOperation
                 ELSE [op |-> mutation.op, taskId |-> mutation.taskId]
  /\ mutation' = [state |-> "success", op |-> "delete", taskId |-> taskId,
                  data |-> [success |-> TRUE, task_id |-> taskId]]
  /\ invalidated' = invalidated \cup InvalidatedByList
  /\ UNCHANGED <<tasks, treeVars, queryVars, pageVars, listVars, dashVars, urlVars, viewVars, heapVars, drawerVars, settingsVars>>

\* options.dryRun: true, false, or left out
DryRuns == {"true", "false", "undefined"}

\* onSuccess of useImportTasks invalidating whatever dryRun is
InvalidatedByImportAlways(dryRun) == InvalidatedByList

\* onSuccess of useImportTasks: if (!dryRun) invalidate tasks and stats
InvalidatedByImport(dryRun) ==
  IF dryRun = "true" THEN {} ELSE InvalidatedByList

useImportTasks(dryRun) ==
  /\ previous' = IF mutation = NoMutation THEN NoOperation
                 ELSE [op |-> mutation.op, taskId |-> mutation.taskId]
  /\ mutation' = [state |-> "success", op |-> "import", taskId |-> 0,
                  dryRun |-> dryRun,
                  data |-> [dry_run |-> (dryRun = "true"),
                            imported_count |-> 5, skipped_count |-> 2,
                            replaced_count |-> 0]]
  /\ invalidated' = invalidated \cup InvalidatedByImport(dryRun)
  /\ UNCHANGED <<tasks, treeVars, queryVars, pageVars, listVars, dashVars, urlVars, viewVars, heapVars, drawerVars, settingsVars>>

\* the hooks
MutationHooks == {"create", "update", "delete", "complete", "reopen", "import"}

\* without the mock data the request fails: fetchApi throws, onSuccess is
\* not called
mutationFnRejects(op, taskId) ==
  /\ previous' = IF mutation = NoMutation THEN NoOperation
                 ELSE [op |-> mutation.op, taskId |-> mutation.taskId]
  /\ mutation' = [state |-> "error", op |-> op, taskId |-> taskId,
                  message |-> "Request failed"]
  /\ UNCHANGED invalidated
  /\ UNCHANGED <<tasks, treeVars, queryVars, pageVars, listVars, dashVars, urlVars, viewVars, heapVars, drawerVars, settingsVars>>

\* the mock tasks: every status, with and without a completion time
MaxMutationTasks == 2

MutationTaskPool ==
  {BaseTask,
   [BaseTask EXCEPT !.status = in_progress],
   [BaseTask EXCEPT !.status = completed, !.completed_at = Timestamp(1, 0)],
   [BaseTask EXCEPT !.status = in_progress, !.completed_at = Timestamp(1, 0)]}

MutationInputs == TaskLists(MutationTaskPool, MaxMutationTasks)

TaskIds == 1..(Len(tasks) + 1)

InitMutation ==
  /\ tasks \in MutationInputs
  /\ IdleMutation /\ IdleUrl /\ IdleView /\ IdleHeap /\ IdleDrawer /\ IdleSettings
  /\ IdleTree /\ IdleQuery /\ IdlePage /\ IdleList /\ IdleDash

NextMutation ==
  \/ \E taskId \in TaskIds : useCompleteTask(taskId)
  \/ \E taskId \in TaskIds : useReopenTask(taskId)

SpecMutation == InitMutation /\ [][NextMutation]_vars

\* every mutation hook, on mock tasks that differ in their id only
InitInvalidate ==
  /\ tasks \in TaskLists({BaseTask}, MaxMutationTasks)
  /\ IdleMutation /\ IdleUrl /\ IdleView /\ IdleHeap /\ IdleDrawer /\ IdleSettings
  /\ IdleTree /\ IdleQuery /\ IdlePage /\ IdleList /\ IdleDash

NextInvalidate ==
  \/ \E taskId \in TaskIds : useCompleteTask(taskId)
  \/ \E taskId \in TaskIds : useReopenTask(taskId)
  \/ useCreateTask
  \/ \E taskId \in TaskIds, payload \in UpdatePayloads : useUpdateTask(taskId, payload)
  \/ \E taskId \in TaskIds : useDeleteTask(taskId)
  \/ \E dryRun \in DryRuns : useImportTasks(dryRun)
  \/ \E op \in MutationHooks, taskId \in TaskIds : mutationFnRejects(op, taskId)

SpecInvalidate == InitInvalidate /\ [][NextInvalidate]_vars

----------------------------------------------------------------------------
(* The Tasks page and the URL (pages/Tasks.tsx, components/FilterBar.tsx)   *)

\* URLSearchParams: a list of name and value pairs
Param(name, value) == [name |-> name, value |-> value]

\* URLSearchParams.get: the value of the first pair with the name, or null
get(params, name) ==
  IF \E k \in 1..Len(params) : params[k].name = name
    THEN params[CHOOSE k \in 1..Len(params) :
                  /\ params[k].name = name
                  /\ \A h \in 1..(k - 1) : params[h].name # name].value
    ELSE null

\* URLSearchParams.set on a list that has no pair with the name yet
set(params, name, value) == Append(params, Param(name, value))

\* a || b
OrElse(a, b) == IF Truthy(a) THEN a ELSE b

\* the initial value of the filters state
initialFilters(params) ==
  [status |-> get(params, "status"),
   topic |-> get(params, "topic"),
   assignee |-> get(params, "assignee"),
   priority |-> get(params, "priority"),
   search |-> OrElse(get(params, "search"), OrElse(get(params, "q"), <<>>))]

\* newParams writing the search text under the name search
newParamsSearchName(newFilters) ==
  LET p1 == IF Truthy(newFilters.status) THEN set(<<>>, "status", newFilters.status) ELSE <<>>
      p2 == IF Truthy(newFilters.topic) THEN set(p1, "topic", newFilters.topic) ELSE p1
      p3 == IF Truthy(newFilters.assignee) THEN set(p2, "assignee", newFilters.assignee) ELSE p2
      p4 == IF Truthy(newFilters.priority) THEN set(p3, "priority", newFilters.priority) ELSE p3
  IN IF Truthy(newFilters.search) THEN set(p4, "search", newFilters.search) ELSE p4

\* the URLSearchParams handleFilterChange builds
newParams(newFilters) ==
  LET p1 == IF Truthy(newFilters.status) THEN set(<<>>, "status", newFilters.status) ELSE <<>>
      p2 == IF Truthy(newFilters.topic) THEN set(p1, "topic", newFilters.topic) ELSE p1
      p3 == IF Truthy(newFilters.assignee) THEN set(p2, "assignee", newFilters.assignee) ELSE p2
      p4 == IF Truthy(newFilters.priority) THEN set(p3, "priority", newFilters.priority) ELSE p3
  IN IF Truthy(newFilters.search) THEN set(p4, "q", newFilters.search) ELSE p4

\* the first render of Tasks: useState reads the URL, which stays as it is
mountTasks ==
  /\ tasksPage = "unmounted"
  /\ tasksPage' = "mounted"
  /\ filters' = initialFilters(searchParams)
  /\ UNCHANGED <<tasks, searchParams, queryData, treeVars, pageVars, listVars,
                 dashVars, mutationVars, viewVars, heapVars, drawerVars, settingsVars>>

handleFilterChange(newFilters) ==
  /\ tasksPage # "unmounted"
  /\ tasksPage' = "changed"
  /\ filters' = newFilters
  /\ searchParams' = newParams(newFilters)
  /\ UNCHANGED <<tasks, queryData, treeVars, pageVars, listVars, dashVars,
                 mutationVars, viewVars, heapVars, drawerVars, settingsVars>>

\* the filter states FilterBar hands to onFilterChange: one select or the
\* search box changed, one filter tag removed, or all filters cleared
SelectOptions(field) ==
  CASE field = "status" -> {<<>>, pending}
    [] field = "topic" -> {<<>>, W}
    [] field = "assignee" -> {<<>>, John}
    [] field = "priority" -> {<<>>, high}

SearchTexts == {<<>>, <<"W">>}

FilterBarChanges ==
  {[filters EXCEPT !.status = OrElse(value, null)] : value \in SelectOptions("status")}
  \cup {[filters EXCEPT !.topic = OrElse(value, null)] : value \in SelectOptions("topic")}
  \cup {[filters EXCEPT !.assignee = OrElse(value, null)] : value \in SelectOptions("assignee")}
  \cup {[filters EXCEPT !.priority = OrElse(value, null)] : value \in SelectOptions("priority")}
  \cup {[filters EXCEPT !.search = text] : text \in SearchTexts}
  \cup {NoQuery}

\* the URLs the page is opened with
MaxUrlParams == 2

ParamNames == {"status", "topic", "assignee", "priority", "search", "q", "page"}
ParamValues == {<<>>, pending, W}

UrlInputs ==
  SeqsUpTo({Param(name, value) : name \in ParamNames, value \in ParamValues},
           MaxUrlParams)

InitTasksUrl ==
  /\ tasks = <<>>
  /\ searchParams \in UrlInputs
  /\ tasksPage = "unmounted"
  /\ IdleMutation /\ IdleView /\ IdleHeap /\ IdleDrawer /\ IdleSettings
  /\ IdleTree /\ IdleQuery /\ IdlePage /\ IdleList /\ IdleDash

NextTasksUrl ==
  \/ mountTasks
  \/ \E newFilters \in FilterBarChanges : handleFilterChange(newFilters)

SpecTasksUrl == InitTasksUrl /\ [][NextTasksUrl]_vars

----------------------------------------------------------------------------
(* Failed fetches and mutations on the pages (pages/*.tsx, TaskDetail.tsx)  *)

Pages == {"Dashboard", "Tasks", "Topics", "Assignees"}

\* isLoading of a query result: no data yet and the first fetch under way
isLoading(f) == f.status = "pending" /\ f.fetching

Content(ts) == [shown |-> TRUE, tasks |-> ts]

\* the tasks a page shows: data?.tasks || [] behind the page's own guards
renderContent(p, f) ==
  CASE p = "Tasks" ->
         IF f.error \/ isLoading(f) THEN NoContent ELSE Content(f.data)
    [] p = "Assignees" ->
         IF f.error \/ isLoading(f) THEN NoContent ELSE Content(f.data)
    [] p = "Topics" ->
         IF isLoading(f) THEN NoContent ELSE Content(f.data)
    [] p = "Dashboard" ->
         IF isLoading(f) \/ ~f.hasData THEN NoContent ELSE Content(f.data)

\* the page shows its red error box
renderMessage(p, f) ==
  CASE p = "Tasks" -> f.error
    [] p = "Assignees" -> f.error
    [] p = "Topics" -> FALSE
    [] p = "Dashboard" -> FALSE

\* TaskList is rendered with a task in it, so a TaskDetail can be open
hasTaskList(p, f) ==
  /\ p # "Dashboard"
  /\ renderContent(p, f).shown
  /\ renderContent(p, f).tasks # <<>>

\* one render of the page after the query result or the drawer changed
Rerender(f, d) ==
  /\ detail' = IF hasTaskList(page, f) THEN d ELSE NoDetail
  /\ view' = [message |-> renderMessage(page, f),
              content |-> renderContent(page, f),
              detailMessage |-> FALSE]
  /\ lastGood' = IF f.status = "success" /\ ~f.fetching
                   THEN renderContent(page, f) ELSE lastGood

\* the tasks query resolves with the tasks of the server
fetchResolves ==
  /\ fetch.fetching
  /\ fetch' = [status |-> "success", fetching |-> FALSE, error |-> FALSE,
               hasData |-> TRUE, data |-> tasks]
  /\ Rerender(fetch', detail)
  /\ UNCHANGED <<tasks, page, treeVars, queryVars, pageVars, listVars, dashVars,
                 mutationVars, urlVars, heapVars, drawerVars, settingsVars>>

\* the tasks query fails, its one retry included; data it had stays
fetchFails ==
  /\ fetch.fetching
  /\ fetch' = [fetch EXCEPT !.status = "error", !.fetching = FALSE, !.error = TRUE]
  /\ Rerender(fetch', detail)
  /\ UNCHANGED <<tasks, page, treeVars, queryVars, pageVars, listVars, dashVars,
                 mutationVars, urlVars, heapVars, drawerVars, settingsVars>>

\* refetch() or an invalidation starts the query again
refetch ==
  /\ ~fetch.fetching
  /\ fetch' = IF fetch.hasData
                THEN [fetch EXCEPT !.fetching = TRUE]
                ELSE [fetch EXCEPT !.fetching = TRUE, !.status = "pending", !.error = FALSE]
  /\ Rerender(fetch', detail)
  /\ UNCHANGED <<tasks, page, treeVars, queryVars, pageVars, listVars, dashVars,
                 mutationVars, urlVars, heapVars, drawerVars, settingsVars>>

\* a click on a task card opens the drawer
setSelectedTask ==
  /\ hasTaskList(page, fetch)
  /\ ~detail.open
  /\ Rerender(fetch, [open |-> TRUE, status |-> "idle"])
  /\ UNCHANGED <<tasks, page, fetch, treeVars, queryVars, pageVars, listVars,
                 dashVars, mutationVars, urlVars, heapVars, drawerVars, settingsVars>>

\* handleComplete, handleReopen or handleDelete: mutateAsync rejects, the
\* handler stops at the await and the drawer stays as it is
mutationRejects ==
  /\ detail.open
  /\ Rerender(fetch, [open |-> TRUE, status |-> "error"])
  /\ UNCHANGED <<tasks, page, fetch, treeVars, queryVars, pageVars, listVars,
                 dashVars, mutationVars, urlVars, heapVars, drawerVars, settingsVars>>

\* mutateAsync resolves: onSuccess invalidates the tasks queries
mutationResolves ==
  /\ detail.open
  /\ ~fetch.fetching
  /\ fetch' = [fetch EXCEPT !.fetching = TRUE]
  /\ Rerender(fetch', [open |-> TRUE, status |-> "success"])
  /\ UNCHANGED <<tasks, page, treeVars, queryVars, pageVars, listVars, dashVars,
                 mutationVars, urlVars, heapVars, drawerVars, settingsVars>>

InitFetch ==
  /\ tasks \in MutationInputs
  /\ page \in Pages
  /\ fetch = [NoFetch EXCEPT !.fetching = TRUE]
  /\ detail = NoDetail
  /\ view = NoView
  /\ lastGood = NoContent
  /\ IdleMutation /\ IdleUrl /\ IdleHeap /\ IdleDrawer /\ IdleSettings
  /\ IdleTree /\ IdleQuery /\ IdlePage /\ IdleList /\ IdleDash

NextFetch ==
  \/ fetchResolves
  \/ fetchFails
  \/ refetch
  \/ setSelectedTask
  \/ mutationRejects
  \/ mutationResolves

SpecFetch == InitFetch /\ [][NextFetch]_vars

----------------------------------------------------------------------------
(* The pipeline functions on arrays in memory                              *)
(* (TaskList.tsx, TopicTree.tsx, hooks/useTasks.ts)                        *)

\* a call: the memory it leaves and the arrays its result refers to
Outcome(h, arrays) == [heap |-> h, arrays |-> arrays]

\* [...tasks]: a new array with the elements of the array at a
spread(h, a) == Append(h, h[a])

\* Array.prototype.sort: sorts the array at a in place
sort(h, a, by) == [h EXCEPT ![a] = sortTasks(h[a], by)]

\* sortTasks sorting the array it is given, with no copy
sortTasksInPlace(h, a, by) == Outcome(sort(h, a, by), <<a>>)

\* sortTasks: [...tasks].sort(...)
sortTasksCall(h, a, by) ==
  LET copied == spread(h, a)
  IN Outcome(sort(copied, Len(copied), by), <<Len(copied)>>)

\* groupTasks: for none the bucket is the array given, otherwise every bucket
\* is a new array
groupTasksCall(h, a, by) ==
  IF by = "none"
    THEN Outcome(h, <<a>>)
    ELSE LET groups == groupTasks(h[a], by)
         IN Outcome(h \o [k \in 1..Len(groups) |-> groups[k].tasks],
                    [k \in 1..Len(groups) |-> Len(h) + k])

\* the mock queryFn: [...mock.tasks], then Array.prototype.filter, which
\* returns a new array
filterCall(h, a, f) ==
  LET copied == spread(h, a)
  IN Outcome(Append(copied, applyFilters(copied[Len(copied)], f)), <<Len(copied) + 1>>)

\* one call on the task array, the arrays of earlier results being garbage
callSortTasks(by) ==
  /\ heap' = sortTasksCall(<<heap[1]>>, 1, by).heap
  /\ returned' = [fn |-> "sortTasks", arrays |-> sortTasksCall(<<heap[1]>>, 1, by).arrays]
  /\ UNCHANGED <<tasks, treeVars, queryVars, pageVars, listVars, dashVars,
                 mutationVars, urlVars, viewVars, drawerVars, settingsVars>>

callGroupTasks(by) ==
  /\ heap' = groupTasksCall(<<heap[1]>>, 1, by).heap
  /\ returned' = [fn |-> "groupTasks", arrays |-> groupTasksCall(<<heap[1]>>, 1, by).arrays]
  /\ UNCHANGED <<tasks, treeVars, queryVars, pageVars, listVars, dashVars,
                 mutationVars, urlVars, viewVars, drawerVars, settingsVars>>

callFilter(f) ==
  /\ heap' = filterCall(<<heap[1]>>, 1, f).heap
  /\ returned' = [fn |-> "filter", arrays |-> filterCall(<<heap[1]>>, 1, f).arrays]
  /\ UNCHANGED <<tasks, treeVars, queryVars, pageVars, listVars, dashVars,
                 mutationVars, urlVars, viewVars, drawerVars, settingsVars>>

\* buildTopicTree reads the array and pushes the tasks to the arrays of its
\* own nodes
callBuildTopicTree ==
  /\ tree' = buildTopicTree(heap[1])
  /\ heap' = <<heap[1]>>
  /\ returned' = [fn |-> "buildTopicTree", arrays |-> <<>>]
  /\ UNCHANGED <<tasks, queryVars, pageVars, listVars, dashVars,
                 mutationVars, urlVars, viewVars, drawerVars, settingsVars>>

\* the task arrays and filters of the calls
MaxPureTasks == 3

PureTaskPool ==
  {BaseTask,
   [BaseTask EXCEPT !.priority = high],
   [BaseTask EXCEPT !.primary_topic = W, !.status = completed],
   [BaseTask EXCEPT !.assignee = null, !.created_at = Timestamp(1, 1)]}

PureInputs == TaskLists(PureTaskPool, MaxPureTasks)

PureFilters ==
  {NoQuery, [NoQuery EXCEPT !.status = pending], [NoQuery EXCEPT !.topic = W_P]}

InitPure ==
  /\ tasks \in PureInputs
  /\ heap = <<tasks>>
  /\ returned = NoCall
  /\ IdleMutation /\ IdleUrl /\ IdleView /\ IdleDrawer /\ IdleSettings
  /\ IdleTree /\ IdleQuery /\ IdlePage /\ IdleList /\ IdleDash

NextPure ==
  \/ \E by \in SortBys : callSortTasks(by)
  \/ \E by \in GroupBys : callGroupTasks(by)
  \/ \E f \in PureFilters : callFilter(f)
  \/ callBuildTopicTree

SpecPure == InitPure /\ [][NextPure]_vars

----------------------------------------------------------------------------
(* The Topics page (pages/Topics.tsx)                                      *)

MaxTopicTasks == 2

\* topics that share a leading run of segments, or of characters only
TopicsTaskPool ==
  {[BaseTask EXCEPT !.primary_topic = tp] : tp \in {W, W_P, W_Q, Wo_P, Home}}

TopicsInputs == TaskLists(TopicsTaskPool, MaxTopicTasks)

\* const tasks = selectedTopic ? (filteredData?.tasks || []) : (allTasksData?.tasks || [])
TopicsTasks(selected, filteredData, allTasks) ==
  IF Truthy(selected)
    THEN IF filteredData.state = "success" THEN filteredData.tasks ELSE <<>>
    ELSE allTasks

\* the fullPath of every node TopicTree renders as a TreeNode, and '' of the
\* All Topics button
TreeNodePaths ==
  {n.node.fullPath : n \in NodesBelow(tree.root, <<>>)} \cup {<<>>}

\* a click in the tree: onTopicSelect={(topic) => setSelectedTopic(topic || null)};
\* the filtered query gets a new key and the page renders while it loads
onTopicSelect(topic) ==
  /\ selectedTopic' = OrElse(topic, null)
  /\ selectedTopic' # selectedTopic
  /\ filters' = [NoQuery EXCEPT !.topic = selectedTopic']
  /\ queryData' = IF Truthy(selectedTopic') THEN NoData ELSE queryFn(tasks, NoQuery)
  /\ Render(TopicsTasks(selectedTopic', queryData', tasks), groupBy, sortBy)
  /\ UNCHANGED <<tasks, tree, selectedAssignee, assigneeStats, groupBy, sortBy, dashVars, restVars>>

\* the filtered query resolves and the page renders its tasks
topicQueryResolves ==
  /\ queryData = NoData
  /\ queryData' = queryFn(tasks, filters)
  /\ Render(TopicsTasks(selectedTopic, queryData', tasks), groupBy, sortBy)
  /\ UNCHANGED <<tasks, tree, filters, pageVars, groupBy, sortBy, dashVars, restVars>>

\* the page mounted, the query of all tasks resolved and the tree rendered
InitTopics ==
  /\ tasks \in TopicsInputs
  /\ tree = buildTopicTree(tasks)
  /\ selectedAssignee = null
  /\ selectedTopic = null
  /\ assigneeStats = <<>>
  /\ filters = NoQuery
  /\ queryData = queryFn(tasks, NoQuery)
  /\ propTasks = tasks
  /\ groupBy = "none"
  /\ sortBy = "priority"
  /\ sortedTasks = sortTasks(tasks, "priority")
  /\ groupedTasks = groupTasks(sortTasks(tasks, "priority"), "none")
  /\ IdleDash /\ IdleRest

NextTopics ==
  \/ \E topic \in TreeNodePaths : onTopicSelect(topic)
  \/ topicQueryResolves

SpecTopics == InitTopics /\ [][NextTopics]_vars

----------------------------------------------------------------------------
(* The task-detail drawer (TaskList.tsx, TaskDetail.tsx)                   *)

MaxInFlight == 2

CompletedTask ==
  [BaseTask EXCEPT !.status = completed, !.completed_at = Timestamp(1, 0)]

\* a list of one task to complete, and of one to reopen
DrawerInputs == {WithIds(<<BaseTask>>), WithIds(<<CompletedTask>>)}

\* the time at which the requests are answered
AnswerTicks == {2 * TicksPerDay}

\* a request sent by a mutation observer of the TaskDetail now mounted, or of
\* one that has unmounted since
Request(op, taskId) == [op |-> op, taskId |-> taskId, observed |-> TRUE]

Unobserved(requests) ==
  [k \in 1..Len(requests) |-> [requests[k] EXCEPT !.observed = FALSE]]

RemoveAt(requests, i) ==
  SubSeq(requests, 1, i - 1) \o SubSeq(requests, i + 1, Len(requests))

\* completeMutation.isPending || reopenMutation.isPending || deleteMutation.isPending
isPending == \E k \in 1..Len(inFlight) : inFlight[k].observed

\* disabled={isLoading} on the Delete, Complete and Reopen buttons
disabled == isPending

\* onClick={() => setSelectedTask(task)} on a card of the list; the drawer
\* covers the list while it is open
setSelectedTaskCard(k) ==
  /\ ~selectedTask.open
  /\ selectedTask' = [open |-> TRUE, task |-> propTasks[k]]
  /\ UNCHANGED <<tasks, inFlight, treeVars, queryVars, pageVars, listVars, dashVars,
                 mutationVars, urlVars, viewVars, heapVars, settingsVars>>

\* onClose={() => setSelectedTask(null)}: TaskDetail unmounts with its
\* mutation observers, the requests stay in flight
onClose ==
  /\ selectedTask.open
  /\ selectedTask' = NoTask
  /\ inFlight' = Unobserved(inFlight)
  /\ UNCHANGED <<tasks, treeVars, queryVars, pageVars, listVars, dashVars,
                 mutationVars, urlVars, viewVars, heapVars, settingsVars>>

\* a click on the button the drawer shows for the status of its task
handleComplete ==
  /\ selectedTask.open
  /\ selectedTask.task.status # completed
  /\ ~disabled
  /\ Len(inFlight) < MaxInFlight
  /\ inFlight' = Append(inFlight, Request("complete", selectedTask.task.id))
  /\ UNCHANGED <<tasks, selectedTask, treeVars, queryVars, pageVars, listVars, dashVars,
                 mutationVars, urlVars, viewVars, heapVars, settingsVars>>

handleReopen ==
  /\ selectedTask.open
  /\ selectedTask.task.status = completed
  /\ ~disabled
  /\ Len(inFlight) < MaxInFlight
  /\ inFlight' = Append(inFlight, Request("reopen", selectedTask.task.id))
  /\ UNCHANGED <<tasks, selectedTask, treeVars, queryVars, pageVars, listVars, dashVars,
                 mutationVars, urlVars, viewVars, heapVars, settingsVars>>

\* confirm(...) answered with OK
handleDelete ==
  /\ selectedTask.open
  /\ ~disabled
  /\ Len(inFlight) < MaxInFlight
  /\ inFlight' = Append(inFlight, Request("delete", selectedTask.task.id))
  /\ UNCHANGED <<tasks, selectedTask, treeVars, queryVars, pageVars, listVars, dashVars,
                 mutationVars, urlVars, viewVars, heapVars, settingsVars>>

\* what the mutation resolves with
Answer(op, task, clock) ==
  CASE op = "complete" -> completeTask(task, clock)
    [] op = "reopen" -> reopenTask(task, clock)
    [] op = "delete" -> [success |-> TRUE, task_id |-> task.id]

\* the tasks the list query returns after the mutation: those of
\* getMockTasks stay as they are, the API has applied the mutation
StoreAfter(ts, op, k, clock, applied) ==
  IF ~applied THEN ts
  ELSE IF op = "delete" THEN RemoveAt(ts, k)
  ELSE [ts EXCEPT ![k] = Answer(op, ts[k], clock)]

\* the request is answered with the task: onSuccess invalidates the queries,
\* and handleDelete goes on to onClose()
requestResolves(i) ==
  LET request == inFlight[i]
      found == find(tasks, request.taskId)
  IN /\ found # {}
     /\ \E clock \in AnswerTicks, applied \in BOOLEAN :
          LET k == CHOOSE h \in found : \A g \in found : h <= g
          IN /\ mutation' = [state |-> "success", op |-> request.op,
                             taskId |-> request.taskId,
                             data |-> Answer(request.op, tasks[k], clock)]
             /\ tasks' = StoreAfter(tasks, request.op, k, clock, applied)
     /\ invalidated' = invalidated \cup
                         (IF request.op = "delete" THEN InvalidatedByList
                          ELSE InvalidatedBy(request.taskId))
     /\ IF request.op = "delete"
          THEN /\ selectedTask' = NoTask
               /\ inFlight' = Unobserved(RemoveAt(inFlight, i))
          ELSE /\ inFlight' = RemoveAt(inFlight, i)
               /\ UNCHANGED selectedTask
     /\ UNCHANGED <<previous, treeVars, queryVars, pageVars, listVars, dashVars,
                    urlVars, viewVars, heapVars, settingsVars>>

\* the request fails: no onSuccess, and the awaiting handler throws
requestRejects(i) ==
  /\ mutation' = [state |-> "error", op |-> inFlight[i].op, taskId |-> inFlight[i].taskId,
                  message |-> "Request failed"]
  /\ inFlight' = RemoveAt(inFlight, i)
  /\ UNCHANGED <<tasks, selectedTask, previous, invalidated, treeVars, queryVars, pageVars,
                 listVars, dashVars, urlVars, viewVars, heapVars, settingsVars>>

\* the invalidated list query refetches and TaskList renders the new tasks
tasksRefetched ==
  /\ QueryKey("tasks", 0) \in invalidated
  /\ invalidated' = invalidated \ {QueryKey("tasks", 0)}
  /\ Render(tasks, groupBy, sortBy)
  /\ UNCHANGED <<tasks, groupBy, sortBy, selectedTask, inFlight, mutation, previous,
                 treeVars, queryVars, pageVars, dashVars, urlVars, viewVars, heapVars,
                 settingsVars>>

\* the list query has resolved and TaskList shows its tasks
InitDrawer ==
  /\ tasks \in DrawerInputs
  /\ propTasks = tasks
  /\ groupBy = "none"
  /\ sortBy = "priority"
  /\ sortedTasks = sortTasks(tasks, "priority")
  /\ groupedTasks = groupTasks(sortTasks(tasks, "priority"), "none")
  /\ IdleDrawer /\ IdleSettings
  /\ IdleMutation /\ IdleUrl /\ IdleView /\ IdleHeap
  /\ IdleTree /\ IdleQuery /\ IdlePage /\ IdleDash

NextDrawer ==
  \/ \E k \in 1..Len(propTasks) : setSelectedTaskCard(k)
  \/ onClose
  \/ handleComplete
  \/ handleReopen
  \/ handleDelete
  \/ \E i \in 1..Len(inFlight) : requestResolves(i)
  \/ \E i \in 1..Len(inFlight) : requestRejects(i)
  \/ tasksRefetched

SpecDrawer == InitDrawer /\ [][NextDrawer]_vars

----------------------------------------------------------------------------
(* The import card of the Settings page (pages/Settings.tsx)               *)

\* the ImportResponse of the mock, and one that replaces a task
ImportResponse(dryRun, replace) ==
  [shown |-> TRUE, dry_run |-> dryRun, imported_count |-> 5, skipped_count |-> 2,
   replaced_count |-> IF replace THEN 1 ELSE 0]

\* onChange={(e) => setReplaceMode(e.target.checked)}
setReplaceMode ==
  /\ replaceMode' = ~replaceMode
  /\ UNCHANGED <<tasks, importMutation, dryRunResult, lastImport, treeVars, queryVars,
                 pageVars, listVars, dashVars, mutationVars, urlVars, viewVars, heapVars,
                 drawerVars>>

\* Dry Run (Preview) and Import Now, disabled={importMutation.isPending}:
\* handleImport up to the await
handleImport(dryRun) ==
  /\ importMutation.status # "pending"
  /\ importMutation' = [status |-> "pending", dryRun |-> dryRun, replace |-> replaceMode]
  /\ UNCHANGED <<tasks, dryRunResult, replaceMode, lastImport, treeVars, queryVars,
                 pageVars, listVars, dashVars, mutationVars, urlVars, viewVars, heapVars,
                 drawerVars>>

\* the import resolves: onSuccess of useImportTasks, then handleImport after
\* the await: if (dryRun) setDryRunResult(result)
importResolves ==
  /\ importMutation.status = "pending"
  /\ importMutation' = [importMutation EXCEPT !.status = "success"]
  /\ dryRunResult' = IF importMutation.dryRun
                       THEN ImportResponse(TRUE, importMutation.replace)
                       ELSE dryRunResult
  /\ invalidated' = invalidated \cup
                      InvalidatedByImport(IF importMutation.dryRun THEN "true" ELSE "false")
  /\ lastImport' = importMutation'
  /\ UNCHANGED <<tasks, replaceMode, mutation, previous, treeVars, queryVars, pageVars,
                 listVars, dashVars, urlVars, viewVars, heapVars, drawerVars>>

\* the import rejects: the catch logs 'Import failed:'
importRejects ==
  /\ importMutation.status = "pending"
  /\ importMutation' = [importMutation EXCEPT !.status = "error"]
  /\ lastImport' = importMutation'
  /\ UNCHANGED <<tasks, dryRunResult, replaceMode, treeVars, queryVars, pageVars,
                 listVars, dashVars, mutationVars, urlVars, viewVars, heapVars, drawerVars>>

\* Dismiss: onClick={() => setDryRunResult(null)}
dismiss ==
  /\ dryRunResult.shown
  /\ dryRunResult' = NoResult
  /\ UNCHANGED <<tasks, importMutation, replaceMode, lastImport, treeVars, queryVars,
                 pageVars, listVars, dashVars, mutationVars, urlVars, viewVars, heapVars,
                 drawerVars>>

\* {importMutation.isSuccess && !dryRunResult && (... Import completed successfully!)}
successMessage == importMutation.status = "success" /\ ~dryRunResult.shown

InitSettings ==
  /\ tasks = <<>>
  /\ IdleSettings /\ IdleDrawer
  /\ IdleMutation /\ IdleUrl /\ IdleView /\ IdleHeap
  /\ IdleTree /\ IdleQuery /\ IdlePage /\ IdleList /\ IdleDash

NextSettings ==
  \/ setReplaceMode
  \/ \E dryRun \in BOOLEAN : handleImport(dryRun)
  \/ importResolves
  \/ importRejects
  \/ dismiss

SpecSettings == InitSettings /\ [][NextSettings]_vars

----------------------------------------------------------------------------
(* The select options of FilterBar (components/FilterBar.tsx)              *)

MaxOptions == 2

\* the characters of the topics and assignees by UTF-16 code unit
CodeUnitOrder ==
  <<"/", "H", "J", "P", "S", "U", "W", "a", "d", "e", "g", "h", "i", "n", "o", "r", "s">>

CodeUnit(c) == CHOOSE k \in 1..Len(CodeUnitOrder) : CodeUnitOrder[k] = c

\* the default comparison of Array.prototype.sort: a before b by code units
RECURSIVE CodeUnitsBefore(_, _)
CodeUnitsBefore(a, b) ==
  IF b = <<>> THEN FALSE
  ELSE IF a = <<>> THEN TRUE
  ELSE IF Head(a) # Head(b) THEN CodeUnit(Head(a)) < CodeUnit(Head(b))
  ELSE CodeUnitsBefore(Tail(a), Tail(b))

\* x after the strings that are not behind it
InsertString(sorted, x) ==
  LET before == {k \in 1..Len(sorted) : ~CodeUnitsBefore(x, sorted[k])}
      at == IF before = {} THEN 0 ELSE CHOOSE k \in before : \A h \in before : h <= k
  IN SubSeq(sorted, 1, at) \o <<x>> \o SubSeq(sorted, at + 1, Len(sorted))

RECURSIVE SortStringsFrom(_, _, _)
SortStringsFrom(sorted, strs, k) ==
  IF k > Len(strs) THEN sorted
  ELSE SortStringsFrom(InsertString(sorted, strs[k]), strs, k + 1)

\* Array.prototype.sort() with no comparator: the array at a, sorted in place
sortStrings(h, a) == [h EXCEPT ![a] = SortStringsFrom(<<>>, h[a], 1)]

\* FilterBar renders: {topics.sort().map(...)} and {assignees.sort().map(...)}
\* on the arrays of its props, the first and the second array in memory
FilterBar ==
  /\ heap' = sortStrings(sortStrings(heap, 1), 2)
  /\ returned' = [fn |-> "FilterBar", arrays |-> <<1, 2>>]
  /\ UNCHANGED <<tasks, treeVars, queryVars, pageVars, listVars, dashVars,
                 mutationVars, urlVars, viewVars, drawerVars, settingsVars>>

OptionTopics == SeqsUpTo({W, W_P, Wo_P, Home}, MaxOptions)
OptionAssignees == SeqsUpTo({John, Sarah, Unassigned}, MaxOptions)

\* the stats query has resolved; Tasks hands stats.topics and stats.assignees
\* themselves to FilterBar
InitFilterBar ==
  /\ tasks = <<>>
  /\ \E topics \in OptionTopics, assignees \in OptionAssignees :
       /\ statsData = [state |-> "success", total_tasks |-> 0,
                       by_status |-> [pending |-> 0, in_progress |-> 0, completed |-> 0],
                       by_priority |-> [high |-> 0, medium |-> 0, low |-> 0],
                       topics |-> topics, assignees |-> assignees]
       /\ heap = <<topics, assignees>>
  /\ returned = NoCall
  /\ now = 0
  /\ dashboardStats = NoStats
  /\ completionRate = NaN
  /\ IdleMutation /\ IdleUrl /\ IdleView /\ IdleDrawer /\ IdleSettings
  /\ IdleTree /\ IdleQuery /\ IdlePage /\ IdleList

NextFilterBar == FilterBar

SpecFilterBar == InitFilterBar /\ [][NextFilterBar]_vars

----------------------------------------------------------------------------
(* Properties of the topic tree                                            *)

RECURSIVE SumTaskCount(_, _)
SumTaskCount(children, segs) ==
  IF segs = {} THEN 0
  ELSE LET seg == CHOOSE x \in segs : TRUE
       IN children[seg].taskCount + SumTaskCount(children, segs \ {seg})

\* C1: in every tree buildTopicTree returns, root.taskCount is the number of
\* input tasks, and so is the sum of taskCount over the root's children.
C1_TreeConservation ==
  tree.state = "ok" =>
    /\ tree.root.taskCount = Len(tasks)
    /\ SumTaskCount(tree.root.children, DOMAIN tree.root.children) = Len(tasks)

C1_Witness ==
  /\ tree.state = "ok"
  /\ Len(tasks) = 3
  /\ Cardinality(DOMAIN tree.root.children) = 2
  /\ \E seg \in DOMAIN tree.root.children : tree.root.children[seg].children # <<>>

\* path is a leading run of the segments parts
IsLeadingRun(path, parts) ==
  Len(path) <= Len(parts) /\ \A k \in 1..Len(path) : parts[k] = path[k]

RECURSIVE TasksWithTopic(_, _)
\* the tasks of ts whose primary_topic is topic, in the order of ts
TasksWithTopic(ts, topic) ==
  IF ts = <<>> THEN <<>>
  ELSE IF Head(ts).primary_topic = topic
    THEN <<Head(ts)>> \o TasksWithTopic(Tail(ts), topic)
    ELSE TasksWithTopic(Tail(ts), topic)

\* C2: every node below the root counts the input tasks whose topic segments
\* start with the node's path, and lists, in input order, exactly the tasks
\* whose primary_topic is the node's fullPath.
C2_NodeCounts ==
  tree.state = "ok" =>
    \A n \in NodesBelow(tree.root, <<>>) :
      /\ n.node.taskCount =
           Cardinality({k \in 1..Len(tasks) :
                          IsLeadingRun(n.path, split(tasks[k].primary_topic, Slash))})
      /\ n.node.tasks = TasksWithTopic(tasks, n.node.fullPath)
      /\ n.node.fullPath = join(n.path, Slash)

C2_Witness ==
  /\ tree.state = "ok"
  /\ \E n \in NodesBelow(tree.root, <<>>) :
       /\ n.node.taskCount = 3
       /\ Len(n.node.tasks) = 1
       /\ n.node.children # <<>>

----------------------------------------------------------------------------
(* Properties of the filter                                                *)

\* C3: the all-empty filter state returns the input sequence itself.
C3_FilterIdentity ==
  (queryData.state = "success" /\ filters = NoQuery) => queryData.tasks = tasks

C3_Witness ==
  /\ queryData.state = "success"
  /\ filters = NoQuery
  /\ Len(queryData.tasks) = 2
  /\ queryData.tasks[1] # queryData.tasks[2]

FilterFields == {"status", "topic", "assignee", "priority", "search"}

\* the filter state f with only the fields of keepFields set
Restrict(f, keepFields) ==
  [fld \in FilterFields |-> IF fld \in keepFields THEN f[fld] ELSE NoQuery[fld]]

\* C4: the fields combine by AND: filtering by the fields of any part of the
\* filter state and then filtering the result by the remaining fields gives
\* the sequence the one-step filter gives.
C4_FilterComposition ==
  queryData.state = "success" =>
    \A first \in SUBSET FilterFields :
      applyFilters(applyFilters(tasks, Restrict(filters, first)),
                   Restrict(filters, FilterFields \ first)) = queryData.tasks

C4_Witness ==
  /\ queryData.state = "success"
  /\ filters = [NoQuery EXCEPT !.status = pending, !.priority = high]
  /\ Len(tasks) = 2
  /\ Len(queryData.tasks) = 1
  /\ Len(applyFilters(tasks, Restrict(filters, {"status"}))) = 2

----------------------------------------------------------------------------
(* Properties of grouping and sorting                                      *)

High == <<"H", "i", "g", "h">>
Medium == <<"M", "e", "d", "i", "u", "m">>
Low == <<"L", "o", "w">>
Pending == <<"P", "e", "n", "d", "i", "n", "g">>
Completed == <<"C", "o", "m", "p", "l", "e", "t", "e", "d">>

\* the label the grouping key prescribes for a task
PrescribedLabel(t, by) ==
  CASE by = "none" -> AllTasks
    [] by = "topic" -> t.primary_topic
    [] by = "assignee" -> IF t.assignee = null \/ t.assignee = <<>> THEN Unassigned ELSE t.assignee
    [] by = "priority" -> (CASE t.priority = high -> High
                             [] t.priority = medium -> Medium
                             [] t.priority = low -> Low)
    [] by = "status" -> (CASE t.status = pending -> Pending
                           [] t.status = in_progress -> InProgress
                           [] t.status = completed -> Completed)

\* the places (bucket, index) of the grouping that hold the task t
PlacesOf(groups, t) ==
  {pl \in UNION {{<<b, j>> : j \in 1..Len(groups[b].tasks)} : b \in 1..Len(groups)} :
     groups[pl[1]].tasks[pl[2]] = t}

\* C5: under every grouping key each task handed to groupTasks sits in exactly
\* one place of exactly one bucket, the bucket labelled as the key prescribes,
\* and the buckets hold nothing else.
C5_GroupingPartition ==
  /\ \A k \in 1..Len(sortedTasks) :
       /\ Cardinality(PlacesOf(groupedTasks, sortedTasks[k])) = 1
       /\ \A pl \in PlacesOf(groupedTasks, sortedTasks[k]) :
            groupedTasks[pl[1]].key = PrescribedLabel(sortedTasks[k], groupBy)
  /\ \A b \in 1..Len(groupedTasks) : \A j \in 1..Len(groupedTasks[b].tasks) :
       \E k \in 1..Len(sortedTasks) : groupedTasks[b].tasks[j] = sortedTasks[k]
  /\ \A b, c \in 1..Len(groupedTasks) : groupedTasks[b].key = groupedTasks[c].key => b = c

C5_Witness ==
  /\ groupBy = "status"
  /\ Len(groupedTasks) = 2
  /\ \E b \in 1..Len(groupedTasks) : groupedTasks[b].key = InProgress
  /\ \E b \in 1..Len(groupedTasks) : groupedTasks[b].key = Pending

\* the sort key of a task
SortKeyOf(t, by) ==
  CASE by = "deadline" -> IF t.deadline = null \/ t.deadline = <<>> THEN null ELSE t.deadline
    [] by = "priority" -> t.priority
    [] by = "created" -> t.created_at
    [] by = "updated" -> t.updated_at
    [] by = "topic" -> t.primary_topic

\* the position of the task with the given id
PositionOf(ts, id) == CHOOSE k \in 1..Len(ts) : ts[k].id = id

\* C7: under every sort key, tasks with equal keys stand in their input order
\* in the sorted list, and sorting the sorted list again changes nothing.
C7_SortStableIdempotent ==
  /\ \A i, j \in 1..Len(propTasks) :
       (i < j /\ SortKeyOf(propTasks[i], sortBy) = SortKeyOf(propTasks[j], sortBy))
         => PositionOf(sortedTasks, propTasks[i].id) < PositionOf(sortedTasks, propTasks[j].id)
  /\ sortTasks(sortedTasks, sortBy) = sortedTasks

C7_Witness ==
  /\ sortBy = "created"
  /\ Len(propTasks) = 2
  /\ propTasks[1].created_at = propTasks[2].created_at
  /\ propTasks[1] # propTasks[2]
  /\ sortedTasks = propTasks

\* C8: sorted by deadline, the dated tasks come first in ascending date order
\* and the undated tasks follow in their input order.
C8_DeadlineNullLast ==
  sortBy = "deadline" =>
    \A i, j \in 1..Len(sortedTasks) :
      i < j =>
        LET a == sortedTasks[i]
            b == sortedTasks[j]
            dated(t) == t.deadline # null /\ t.deadline # <<>>
        IN /\ dated(b) => dated(a)
           /\ (dated(a) /\ dated(b)) => DayOf(a.deadline) <= DayOf(b.deadline)
           /\ (~dated(a) /\ ~dated(b)) =>
                PositionOf(propTasks, a.id) < PositionOf(propTasks, b.id)

C8_Witness ==
  /\ sortBy = "deadline"
  /\ Len(propTasks) = 2
  /\ propTasks[1].deadline = null
  /\ propTasks[2].deadline = DateString(1)
  /\ sortedTasks = <<propTasks[2], propTasks[1]>>

----------------------------------------------------------------------------
(* Properties of the Unassigned sentinel                                   *)

RECURSIVE WithoutAssignee(_)
\* the tasks that have no assignee, in order
WithoutAssignee(ts) ==
  IF ts = <<>> THEN <<>>
  ELSE IF Head(ts).assignee = null \/ Head(ts).assignee = <<>>
    THEN <<Head(ts)>> \o WithoutAssignee(Tail(ts))
    ELSE WithoutAssignee(Tail(ts))

\* C6: grouped by assignee, every task without an assignee is in the bucket
\* 'Unassigned'; the filter {assignee: 'Unassigned'} keeps exactly the tasks
\* without an assignee, so none for bearing the text 'Unassigned'.
C6_UnassignedFolding ==
  /\ groupBy = "assignee" =>
       \A k \in 1..Len(propTasks) :
         (propTasks[k].assignee = null \/ propTasks[k].assignee = <<>>) =>
           \E b \in 1..Len(groupedTasks) :
             /\ groupedTasks[b].key = Unassigned
             /\ includesTask(groupedTasks[b].tasks, propTasks[k])
  /\ (selectedAssignee = Unassigned /\ queryData.state = "success") =>
       queryData.tasks = WithoutAssignee(tasks)

C6_Witness ==
  /\ selectedAssignee = Unassigned
  /\ queryData.state = "success"
  /\ groupBy = "assignee"
  /\ \E i, j \in 1..Len(tasks) : tasks[i].assignee = null /\ tasks[j].assignee = Unassigned
  /\ Len(propTasks) = 1
  /\ groupedTasks = <<[key |-> Unassigned, tasks |-> propTasks]>>

----------------------------------------------------------------------------
(* Properties of the dashboard statistics                                  *)

\* C9: no task is both in the overdue set and in the due-soon set.
C9_OverdueDueSoonDisjoint ==
  dashboardStats.state = "computed" =>
    \A k \in 1..Len(tasks) :
      ~(includesTask(dashboardStats.overdueTasks, tasks[k])
          /\ includesTask(dashboardStats.dueSoonTasks, tasks[k]))

C9_Witness ==
  /\ dashboardStats.state = "computed"
  /\ dashboardStats.overdue = 1
  /\ dashboardStats.dueSoon = 1

\* the calendar day of a clock reading
DayOfClock(clock) == clock \div TicksPerDay

\* C10: a task that is not completed and whose deadline is today's date is
\* counted as due soon and not as overdue, whatever the time of day.
C10_TodayIsDueSoon ==
  dashboardStats.state = "computed" =>
    \A k \in 1..Len(tasks) :
      (/\ tasks[k].status # completed
       /\ tasks[k].deadline # null /\ tasks[k].deadline # <<>>
       /\ DayOf(tasks[k].deadline) = DayOfClock(now))
        => /\ includesTask(dashboardStats.dueSoonTasks, tasks[k])
           /\ ~includesTask(dashboardStats.overdueTasks, tasks[k])

----------------------------------------------------------------------------
(* Further properties of the topic tree, the filter, grouping and sorting  *)

\* the nodes below the root whose tasks list holds the task
HoldersOf(root, t) ==
  {n \in NodesBelow(root, <<>>) : \E k \in 1..Len(n.node.tasks) : n.node.tasks[k] = t}

\* C15: buildTopicTree returns a tree for every task list; every segment,
\* the empty ones too, is a child named by the segment, a primary_topic of ""
\* is one child of the root named "" and every task is in the tasks list of
\* exactly one node.
C15_TreeTotal ==
  tree # NoTree =>
    /\ tree.state = "ok"
    /\ \A k \in 1..Len(tasks) :
         /\ Cardinality(HoldersOf(tree.root, tasks[k])) = 1
         /\ \A n \in HoldersOf(tree.root, tasks[k]) :
              n.path = split(tasks[k].primary_topic, Slash)
    /\ \A n \in NodesBelow(tree.root, <<>>) : n.node.name = n.path[Len(n.path)]
    /\ (Len(tasks) = 1 /\ tasks[1].primary_topic = <<>>) =>
         /\ DOMAIN tree.root.children = {<<>>}
         /\ tree.root.children[<<>>].taskCount = 1

\* prefix is a leading run of the characters of s
IsStringPrefix(prefix, s) ==
  Len(prefix) <= Len(s) /\ \A k \in 1..Len(prefix) : s[k] = prefix[k]

RECURSIVE TasksWithTopicPrefix(_, _)
TasksWithTopicPrefix(ts, prefix) ==
  IF ts = <<>> THEN <<>>
  ELSE IF IsStringPrefix(prefix, Head(ts).primary_topic)
    THEN <<Head(ts)>> \o TasksWithTopicPrefix(Tail(ts), prefix)
    ELSE TasksWithTopicPrefix(Tail(ts), prefix)

\* C16: the topic filter keeps exactly the tasks whose primary_topic starts
\* with the characters of the filter value, path segments playing no part.
C16_TopicPlainPrefix ==
  (queryData.state = "success" /\ filters.topic # null
     /\ filters = [NoQuery EXCEPT !.topic = filters.topic])
    => queryData.tasks = TasksWithTopicPrefix(tasks, filters.topic)

C16_Witness ==
  /\ queryData.state = "success"
  /\ filters = [NoQuery EXCEPT !.topic = W]
  /\ Len(tasks) = 2
  /\ tasks[1].primary_topic = Wo_P
  /\ tasks[2].primary_topic = Home
  /\ queryData.tasks = <<tasks[1]>>

\* the first place in ts of a task the bucket holds
FirstPlace(ts, bucket) ==
  CHOOSE k \in 1..Len(ts) :
    /\ includesTask(bucket.tasks, ts[k])
    /\ \A h \in 1..(k - 1) : ~includesTask(bucket.tasks, ts[h])

\* C17: under every grouping key but none the buckets stand in the order in
\* which the grouped list first meets their labels, and the tasks of a bucket
\* stand in the order of the grouped list.
C17_BucketOrder ==
  groupBy # "none" =>
    /\ \A b, c \in 1..Len(groupedTasks) :
         b < c => FirstPlace(sortedTasks, groupedTasks[b]) < FirstPlace(sortedTasks, groupedTasks[c])
    /\ \A b \in 1..Len(groupedTasks) :
         \A i, j \in 1..Len(groupedTasks[b].tasks) :
           i < j => PositionOf(sortedTasks, groupedTasks[b].tasks[i].id)
                      < PositionOf(sortedTasks, groupedTasks[b].tasks[j].id)

C17_Witness ==
  /\ groupBy = "assignee"
  /\ sortBy = "deadline"
  /\ Len(groupedTasks) = 2
  /\ groupedTasks[1].key = Unassigned
  /\ groupedTasks[2].key = John

\* the rank of the topics of the list pool in ascending order
TopicRank(topic) == CASE topic = W -> 1 [] topic = W_P -> 2 [] topic = Wo_P -> 3

PriorityRank(p) == CASE p = high -> 1 [] p = medium -> 2 [] p = low -> 3

\* the instant of a timestamp string, as the pair of its day and its tick
Newer(s, t) ==
  \/ DayOf(s) > DayOf(t)
  \/ DayOf(s) = DayOf(t) /\ DigitVal(s[4]) > DigitVal(t[4])

\* the sort key puts a strictly before b
Precedes(a, b, by) ==
  CASE by = "deadline" ->
         /\ a.deadline # null /\ a.deadline # <<>>
         /\ (b.deadline = null \/ b.deadline = <<>> \/ DayOf(a.deadline) < DayOf(b.deadline))
    [] by = "priority" -> PriorityRank(a.priority) < PriorityRank(b.priority)
    [] by = "created" -> Newer(a.created_at, b.created_at)
    [] by = "updated" -> Newer(a.updated_at, b.updated_at)
    [] by = "topic" -> TopicRank(a.primary_topic) < TopicRank(b.primary_topic)

\* C18: whatever groupBy and sortBy were changed to, the buckets shown are
\* the grouping of the tasks sorted by the active key, so inside every bucket
\* no task stands behind one that the active sort key puts after it.
C18_SortThenGroup ==
  /\ groupedTasks = groupTasks(sortTasks(propTasks, sortBy), groupBy)
  /\ \A b \in 1..Len(groupedTasks) :
       \A i, j \in 1..Len(groupedTasks[b].tasks) :
         i < j => ~Precedes(groupedTasks[b].tasks[j], groupedTasks[b].tasks[i], sortBy)

C18_Witness ==
  /\ groupBy = "assignee"
  /\ sortBy = "updated"
  /\ Len(groupedTasks) = 1
  /\ Len(propTasks) = 2
  /\ groupedTasks[1].tasks = <<propTasks[2], propTasks[1]>>

\* C19: the sorted list is a permutation of the input in which no task stands
\* behind one its key puts after it: high before medium before low, newer
\* created and updated timestamps first, ascending primary_topic.
C19_SortedByKey ==
  /\ Len(sortedTasks) = Len(propTasks)
  /\ \A k \in 1..Len(propTasks) :
       Cardinality({h \in 1..Len(sortedTasks) : sortedTasks[h] = propTasks[k]}) = 1
  /\ sortBy \in {"priority", "created", "updated", "topic"} =>
       \A i, j \in 1..Len(sortedTasks) :
         i < j => ~Precedes(sortedTasks[j], sortedTasks[i], sortBy)

C19_Witness ==
  /\ sortBy = "created"
  /\ Len(propTasks) = 2
  /\ Newer(propTasks[2].created_at, propTasks[1].created_at)
  /\ sortedTasks = <<propTasks[2], propTasks[1]>>

----------------------------------------------------------------------------
(* Further properties of the dashboard statistics                          *)

\* the task has a deadline on one of the days from today to seven days on
DueSoonOn(t, clock) ==
  /\ t.deadline # null /\ t.deadline # <<>>
  /\ DayOf(t.deadline) >= DayOfClock(clock)
  /\ DayOf(t.deadline) <= DayOfClock(clock) + DueSoonDays

\* the task has a deadline on a day before today
OverdueOn(t, clock) ==
  /\ t.deadline # null /\ t.deadline # <<>>
  /\ DayOf(t.deadline) < DayOfClock(clock)

\* the task is not completed and is high priority, due soon or overdue
QualifiesAsUrgent(t, clock) ==
  /\ t.status # completed
  /\ t.priority = high \/ DueSoonOn(t, clock) \/ OverdueOn(t, clock)

\* C20: the urgent list is the first five, in input order, of the tasks that
\* are not completed and are high priority, due soon or overdue.
C20_UrgentList ==
  dashboardStats.state = "computed" =>
    LET Qualifies(t) == QualifiesAsUrgent(t, now)
        qualifying == SelectSeq(tasks, Qualifies)
    IN dashboardStats.urgentTasks
         = SubSeq(qualifying, 1, IF Len(qualifying) < UrgentLimit
                                   THEN Len(qualifying) ELSE UrgentLimit)

----------------------------------------------------------------------------
(* Properties of complete and reopen                                       *)

\* C11: every task a complete or a reopen returns has completed_at non-null
\* exactly when its status is completed, whatever the status of the task
\* before; a reopen that follows a complete of the same task returns it with
\* status pending and completed_at null.
C11_CompletionInvariant ==
  (mutation.state = "success" /\ mutation.op \in {"complete", "reopen"}) =>
    /\ (mutation.data.completed_at # null) <=> (mutation.data.status = completed)
    /\ (mutation.op = "reopen" /\ previous = [op |-> "complete", taskId |-> mutation.taskId])
         => /\ mutation.data.status = pending
            /\ mutation.data.completed_at = null

C11_Witness ==
  /\ mutation.state = "success"
  /\ mutation.op = "reopen"
  /\ previous = [op |-> "complete", taskId |-> mutation.taskId]
  /\ tasks[mutation.taskId].status = in_progress
  /\ tasks[mutation.taskId].completed_at # null
  /\ mutation.data.status = pending
  /\ mutation.data.completed_at = null

----------------------------------------------------------------------------
(* Properties of the Tasks page and the URL                                *)

\* the pairs of the query string with the name
PairsNamed(name) == {k \in 1..Len(searchParams) : searchParams[k].name = name}

\* the query string has the value under the name once if the value is not
\* empty, and has no pair with the name if it is
MirrorsField(name, value) ==
  IF value = null \/ value = <<>>
    THEN PairsNamed(name) = {}
    ELSE /\ Cardinality(PairsNamed(name)) = 1
         /\ \A k \in PairsNamed(name) : searchParams[k].value = value

\* the query string holds exactly the non-empty fields of the filter state
UrlMirrorsFilters ==
  /\ MirrorsField("status", filters.status)
  /\ MirrorsField("topic", filters.topic)
  /\ MirrorsField("assignee", filters.assignee)
  /\ MirrorsField("priority", filters.priority)
  /\ MirrorsField("q", filters.search)
  /\ \A k \in 1..Len(searchParams) :
       searchParams[k].name \in {"status", "topic", "assignee", "priority", "q"}

\* the filter state with the empty selections written as null
NullForEmpty(f) ==
  [f EXCEPT !.status = IF @ = <<>> THEN null ELSE @,
            !.topic = IF @ = <<>> THEN null ELSE @,
            !.assignee = IF @ = <<>> THEN null ELSE @,
            !.priority = IF @ = <<>> THEN null ELSE @]

\* C12: after the initial mount and after every filter change the query
\* string holds exactly the non-empty fields of the filter state, the search
\* text under q, and mounting the page from it gives the same filter state.
C12_UrlSync ==
  tasksPage # "unmounted" =>
    /\ UrlMirrorsFilters
    /\ initialFilters(searchParams) = filters

\* C12 as amended: after every filter change the query string holds exactly
\* the non-empty fields of the filter state, the search text under q, and
\* mounting the page from it gives the same filter state with an empty
\* status, topic, assignee or priority read back as null.
C12_UrlSyncAfterChange ==
  tasksPage = "changed" =>
    /\ UrlMirrorsFilters
    /\ initialFilters(searchParams) = NullForEmpty(filters)

C12_Witness ==
  /\ tasksPage = "changed"
  /\ filters = [NoQuery EXCEPT !.status = pending, !.topic = <<>>, !.search = <<"W">>]
  /\ searchParams = <<Param("status", pending), Param("q", <<"W">>)>>

----------------------------------------------------------------------------
(* Properties of failed fetches and mutations                              *)

\* C13: while the tasks fetch of a page has failed the page shows an error
\* message and still shows the content of the last fetch that succeeded, and
\* after a failed task-detail action the drawer shows an error message.
C13_ErrorsInline ==
  /\ fetch.error =>
       /\ view.message
       /\ lastGood.shown => view.content = lastGood
  /\ detail.status = "error" => view.detailMessage

----------------------------------------------------------------------------
(* Properties of the pipeline functions on arrays in memory                *)

----------------------------------------------------------------------------
(* Properties of the assignee rollups                                      *)

\* the place of the entry with the name in the rollup list
StatPlace(name) == CHOOSE k \in 1..Len(assigneeStats) : assigneeStats[k].name = name

\* the tasks whose assignee, none read as 'Unassigned', is the name
TasksOfAssignee(name) ==
  {k \in 1..Len(tasks) :
     IF tasks[k].assignee = null \/ tasks[k].assignee = <<>>
       THEN name = Unassigned
       ELSE tasks[k].assignee = name}

\* C21: the rollup list is in descending order of task count, except that
\* the entry 'Unassigned' is last whatever its count.
C21_RollupOrder ==
  \A i, j \in 1..Len(assigneeStats) :
    i < j =>
      /\ assigneeStats[i].name # Unassigned
      /\ assigneeStats[j].name # Unassigned =>
           Cardinality(TasksOfAssignee(assigneeStats[i].name))
             >= Cardinality(TasksOfAssignee(assigneeStats[j].name))

C21_Witness ==
  /\ Len(assigneeStats) = 2
  /\ tasks[1].assignee = null
  /\ assigneeStats[1].name = John
  /\ Len(assigneeStats[1].tasks) = 1
  /\ assigneeStats[2].name = Unassigned
  /\ Len(assigneeStats[2].tasks) = 2

\* C22: the rollup has one entry for every assignee, none read as
\* 'Unassigned'; in every entry high + medium + low and pending + completed
\* both equal the number of the entry's tasks, pending counting every task
\* that is not completed, and the task counts sum to the number of tasks.
C22_RollupCounts ==
  /\ \A k \in 1..Len(tasks) :
       Cardinality({i \in 1..Len(assigneeStats) : k \in TasksOfAssignee(assigneeStats[i].name)}) = 1
  /\ \A i \in 1..Len(assigneeStats) :
       LET stat == assigneeStats[i]
           own == TasksOfAssignee(stat.name)
       IN /\ own # {}
          /\ Len(stat.tasks) = Cardinality(own)
          /\ stat.high + stat.medium + stat.low = Cardinality(own)
          /\ stat.pending + stat.completed = Cardinality(own)
          /\ stat.completed = Cardinality({k \in own : tasks[k].status = completed})
          /\ stat.high = Cardinality({k \in own : tasks[k].priority = high})
          /\ stat.low = Cardinality({k \in own : tasks[k].priority = low})
  /\ \A i, j \in 1..Len(assigneeStats) :
       assigneeStats[i].name = assigneeStats[j].name => i = j

C22_Witness ==
  /\ Len(assigneeStats) = 2
  /\ assigneeStats[1].name = Sarah
  /\ assigneeStats[1].completed = 1
  /\ assigneeStats[2].name = Unassigned
  /\ assigneeStats[2].pending = 2
  /\ \E k \in 1..Len(tasks) : tasks[k].status = in_progress

\* C26: once the list of a selected rollup entry has loaded it shows as many
\* tasks as the entry counts.
C26_ListMatchesRollup ==
  (selectedAssignee # null /\ queryData.state = "success") =>
    Len(propTasks) = Len(assigneeStats[StatPlace(selectedAssignee)].tasks)

----------------------------------------------------------------------------
(* Properties of the completion rate                                       *)

\* C23: the completion rate shown is completed / total as a percentage
\* rounded to the nearest whole number, and 0 whenever total is 0.
C23_CompletionRate ==
  dashboardStats.state = "computed" =>
    LET total == statsData.total_tasks
        done == statsData.by_status.completed
    IN /\ completionRate.kind = "finite"
       /\ completionRate.d = 1
       /\ total = 0 => completionRate.n = 0
       /\ total > 0 =>
            /\ 2 * completionRate.n * total <= 200 * done + total
            /\ 200 * done + total < 2 * (completionRate.n + 1) * total


-----------------------------------------------------------------------------
(* Properties of the cache invalidation                                    *)

\* the mutation settled as a success that is not a dry-run import
RealSuccess(m) ==
  /\ m.state = "success"
  /\ ~(m.op = "import" /\ m.dryRun = "true")

\* C24: the cached task lists and the cached stats are invalidated exactly
\* when a mutation succeeds: every successful create, update, complete,
\* reopen, delete or non-dry-run import invalidates both, while a failed
\* mutation or a dry-run import leaves the invalidated queries as they were.
C24_InvalidatedOnSuccess ==
  [][IF RealSuccess(mutation')
       THEN InvalidatedByList \subseteq invalidated'
       ELSE invalidated' = invalidated]_vars

\* a dry-run import has succeeded and no query is invalidated
C24_Witness ==
  /\ mutation.state = "success"
  /\ mutation.op = "import"
  /\ mutation.dryRun = "true"
  /\ previous # NoOperation
  /\ previous.op = "update"
  /\ invalidated = {}

-----------------------------------------------------------------------------
(* Properties of the Topics page                                           *)

\* C25: on the Topics page, once the query of the selected node has resolved,
\* the task list next to the tree holds exactly the tasks the node counts:
\* as many as the node's taskCount, each with the node's path as a leading
\* run of the segments of its primary_topic.
C25_ListMatchesNode ==
  (selectedTopic # null /\ queryData.state = "success") =>
    \A n \in NodesBelow(tree.root, <<>>) :
      n.node.fullPath = selectedTopic =>
        /\ Len(propTasks) = n.node.taskCount
        /\ \A k \in 1..Len(propTasks) :
             IsLeadingRun(n.path, split(propTasks[k].primary_topic, Slash))

-----------------------------------------------------------------------------
(* Properties of the task-detail drawer                                    *)

\* C27: once a complete or reopen issued from the open drawer has succeeded
\* and the task list has been refetched, the drawer shows the task with the
\* status the mutation gave it, and the task it shows is the version of the
\* current list.
C27_DrawerShowsCurrent ==
  (/\ selectedTask.open
   /\ mutation.state = "success"
   /\ mutation.op \in {"complete", "reopen"}
   /\ mutation.taskId = selectedTask.task.id
   /\ inFlight = <<>>
   /\ QueryKey("tasks", 0) \notin invalidated) =>
     /\ selectedTask.task.status = mutation.data.status
     /\ \E k \in 1..Len(propTasks) : propTasks[k] = selectedTask.task

\* C29: at most one of the complete, reopen and delete requests is in flight
\* for a task at any time.
C29_OneInFlightPerTask ==
  \A i, k \in 1..Len(inFlight) :
    inFlight[i].taskId = inFlight[k].taskId => i = k

-----------------------------------------------------------------------------
(* Properties of the Settings page                                         *)

\* C28: while no import is pending, the message 'Import completed
\* successfully!' is shown exactly when the import that settled last was a
\* successful import that was not a dry run.
C28_SuccessMessage ==
  importMutation.status # "pending" =>
    (successMessage <=> (lastImport.status = "success" /\ ~lastImport.dryRun))

-----------------------------------------------------------------------------
(* Properties of the FilterBar render                                      *)

\* C30: after FilterBar has rendered, the topics and the assignees arrays it
\* was given hold the elements of the stats response in the order of the
\* response.
C30_OptionsUntouched ==
  returned.fn = "FilterBar" =>
    /\ heap[1] = statsData.topics
    /\ heap[2] = statsData.assignees

====
